---------------------------- MODULE Spec2Model ----------------------------
(***************************************************************************)
(* A model of dump1090.c (Mode S decoder for serial / file / TCP input).   *)
(*                                                                         *)
(* Bytes are naturals 0..255, a message buffer is a sequence of 14 bytes   *)
(* (C index j is TLA+ index j+1), a 32-bit unsigned is a pair of 16-bit    *)
(* halves where the code relies on wrap-around, and a C string is a        *)
(* sequence of one-character strings.                                      *)
(***************************************************************************)
EXTENDS Integers, Sequences, FiniteSets, TLC

(***************************************************************************)
(* Program constants (#define).                                            *)
(***************************************************************************)
MODES_LONG_MSG_BITS == 112
MODES_SHORT_MSG_BITS == 56
MODES_LONG_MSG_BYTES == 14
MODES_HEX_LEN == 64
MODES_ICAO_CACHE_LEN == 1024
MODES_ICAO_CACHE_TTL == 60
MODES_INTERACTIVE_TTL == 60

(***************************************************************************)
(* Bit arithmetic on naturals (C's &, ^, >>, << on unsigned values).       *)
(***************************************************************************)
Pow2(n) == << 1, 2, 4, 8, 16, 32, 64, 128, 256, 512, 1024, 2048, 4096, 8192, 16384,
              32768, 65536, 131072, 262144, 524288, 1048576 >>[n + 1]

\* (x >> n) & 1
BitAt(x, n) == (x \div Pow2(n)) % 2

\* a ^ b for two 4-bit values: XorNib[a + 1][b + 1]
XorNib == <<
    << 0, 1, 2, 3, 4, 5, 6, 7, 8, 9, 10, 11, 12, 13, 14, 15 >>,
    << 1, 0, 3, 2, 5, 4, 7, 6, 9, 8, 11, 10, 13, 12, 15, 14 >>,
    << 2, 3, 0, 1, 6, 7, 4, 5, 10, 11, 8, 9, 14, 15, 12, 13 >>,
    << 3, 2, 1, 0, 7, 6, 5, 4, 11, 10, 9, 8, 15, 14, 13, 12 >>,
    << 4, 5, 6, 7, 0, 1, 2, 3, 12, 13, 14, 15, 8, 9, 10, 11 >>,
    << 5, 4, 7, 6, 1, 0, 3, 2, 13, 12, 15, 14, 9, 8, 11, 10 >>,
    << 6, 7, 4, 5, 2, 3, 0, 1, 14, 15, 12, 13, 10, 11, 8, 9 >>,
    << 7, 6, 5, 4, 3, 2, 1, 0, 15, 14, 13, 12, 11, 10, 9, 8 >>,
    << 8, 9, 10, 11, 12, 13, 14, 15, 0, 1, 2, 3, 4, 5, 6, 7 >>,
    << 9, 8, 11, 10, 13, 12, 15, 14, 1, 0, 3, 2, 5, 4, 7, 6 >>,
    << 10, 11, 8, 9, 14, 15, 12, 13, 2, 3, 0, 1, 6, 7, 4, 5 >>,
    << 11, 10, 9, 8, 15, 14, 13, 12, 3, 2, 1, 0, 7, 6, 5, 4 >>,
    << 12, 13, 14, 15, 8, 9, 10, 11, 4, 5, 6, 7, 0, 1, 2, 3 >>,
    << 13, 12, 15, 14, 9, 8, 11, 10, 5, 4, 7, 6, 1, 0, 3, 2 >>,
    << 14, 15, 12, 13, 10, 11, 8, 9, 6, 7, 4, 5, 2, 3, 0, 1 >>,
    << 15, 14, 13, 12, 11, 10, 9, 8, 7, 6, 5, 4, 3, 2, 1, 0 >> >>

RECURSIVE Xor(_, _)
Xor(a, b) == IF a = 0 THEN b
             ELSE IF b = 0 THEN a
             ELSE XorNib[(a % 16) + 1][(b % 16) + 1] + 16 * Xor(a \div 16, b \div 16)

(***************************************************************************)
(* CRC engine.                                                             *)
(***************************************************************************)
modes_checksum_table == <<
    3749354, 1874677, 15841150, 7920575, 12818395, 10367465, 11592432, 5796216,
    2898108, 1449054, 724527, 16416019, 8569997, 12490818, 6245409, 13655060,
    6827530, 3413765, 15069574, 7534787, 13010533, 10271030, 5135515, 14210121,
    9670688, 4835344, 2417672, 1208836, 604418, 302209, 16626756, 8313378,
    4156689, 14699660, 7349830, 3674915, 14939029, 9307086, 4653543, 14449399,
    9553791, 11999675, 10778329, 11387240, 5693620, 2846810, 1423405, 16066066,
    8033033, 12759936, 6379968, 3189984, 1594992, 797496, 398748, 199374,
    99687, 16726199, 8414815, 12568875, 10493585, 11531596, 5765798, 2882899,
    15336621, 9107538, 4553769, 14500880, 7250440, 3625220, 1812610, 906305,
    16322596, 8161298, 4080649, 14735360, 7367680, 3683840, 1841920, 920960,
    460480, 230240, 115120, 57560, 28780, 14390, 7195, 16774153,
    0, 0, 0, 0, 0, 0, 0, 0,
    0, 0, 0, 0, 0, 0, 0, 0,
    0, 0, 0, 0, 0, 0, 0, 0 >>

\* msg[byte] & (1 << (7-bit)), as a truth value
MsgBit(msg, j) == BitAt(msg[(j \div 8) + 1], 7 - (j % 8)) = 1

\* one turn of the loop body: if bit j is set, xor with the table entry
ChecksumBit(msg, offset, j, crc) ==
    IF MsgBit(msg, j) THEN Xor(crc, modes_checksum_table[j + offset + 1]) ELSE crc

\* eight turns of the loop, j .. j+7 (one message byte)
ChecksumByte(msg, offset, j, crc) ==
    ChecksumBit(msg, offset, j + 7,
    ChecksumBit(msg, offset, j + 6,
    ChecksumBit(msg, offset, j + 5,
    ChecksumBit(msg, offset, j + 4,
    ChecksumBit(msg, offset, j + 3,
    ChecksumBit(msg, offset, j + 2,
    ChecksumBit(msg, offset, j + 1,
    ChecksumBit(msg, offset, j, crc))))))))

\* for (j = 0; j < bits; j++), bits a multiple of 8
RECURSIVE ChecksumFrom(_, _, _, _, _)
ChecksumFrom(msg, bits, offset, j, crc) ==
    IF j >= bits THEN crc
    ELSE LET c == ChecksumByte(msg, offset, j, crc)
         IN IF c \in Nat THEN ChecksumFrom(msg, bits, offset, j + 8, c) ELSE c

modesChecksum(msg, bits) ==
    ChecksumFrom(msg, bits, IF bits = 112 THEN 0 ELSE 112 - 56, 0, 0)

\* modesMessageLenByType with the two Comm-B replies (DF20, DF21) taken as short
modesMessageLenByType_CommBShort(type) ==
    IF type = 16 \/ type = 17 \/ type = 19
    THEN MODES_LONG_MSG_BITS
    ELSE MODES_SHORT_MSG_BITS

modesMessageLenByType(type) ==
    IF type = 16 \/ type = 17 \/ type = 19 \/ type = 20 \/ type = 21
    THEN MODES_LONG_MSG_BITS
    ELSE MODES_SHORT_MSG_BITS

\* the last three bytes of a frame of `bits` bits, big-endian
TrailingCrc(msg, bits) ==
    msg[(bits \div 8) - 2] * 65536 + msg[(bits \div 8) - 1] * 256 + msg[bits \div 8]

\* aux[byte] ^= bitmask for bit j
FlipBit(msg, j) ==
    [msg EXCEPT ![(j \div 8) + 1] =
        IF MsgBit(msg, j) THEN @ - Pow2(7 - (j % 8)) ELSE @ + Pow2(7 - (j % 8))]

\* The result of a repair: the bit (or bit pair) found, -1 if none, and the
\* buffer as the call leaves it.  A loop that returns at its first hit is
\* taken by halves of its range, lower half first: the same turns run in the
\* same order, and the nesting stays shallow.
OrElse(r, rest) == IF r.bit # -1 THEN r ELSE rest

\* for (j = lo; j <= hi; j++)
RECURSIVE FixSingleFrom(_, _, _, _)
FixSingleFrom(msg, bits, lo, hi) ==
    IF lo > hi THEN [bit |-> -1, msg |-> msg]
    ELSE IF lo = hi
    THEN LET aux == FlipBit(msg, lo)
         IN IF TrailingCrc(aux, bits) = modesChecksum(aux, bits)
            THEN [bit |-> lo, msg |-> aux]
            ELSE [bit |-> -1, msg |-> msg]
    ELSE OrElse(FixSingleFrom(msg, bits, lo, (lo + hi) \div 2),
                FixSingleFrom(msg, bits, ((lo + hi) \div 2) + 1, hi))

\* fixSingleBitErrors returning the bit without copying aux back into msg
fixSingleBitErrors_NoCopyBack(msg, bits) ==
    [FixSingleFrom(msg, bits, 0, bits - 1) EXCEPT !.msg = msg]

fixSingleBitErrors(msg, bits) == FixSingleFrom(msg, bits, 0, bits - 1)

\* the inner loop: for (i = lo; i <= hi; i++), lo being j+1 at first
RECURSIVE FixTwoInner(_, _, _, _, _)
FixTwoInner(msg, bits, j, lo, hi) ==
    IF lo > hi THEN [bit |-> -1, msg |-> msg]
    ELSE IF lo = hi
    THEN LET aux == FlipBit(FlipBit(msg, j), lo)
         IN IF TrailingCrc(aux, bits) = modesChecksum(aux, bits)
            THEN [bit |-> j + lo * 256, msg |-> aux]
            ELSE [bit |-> -1, msg |-> msg]
    ELSE OrElse(FixTwoInner(msg, bits, j, lo, (lo + hi) \div 2),
                FixTwoInner(msg, bits, j, ((lo + hi) \div 2) + 1, hi))

\* the outer loop: for (j = lo; j <= hi; j++)
RECURSIVE FixTwoFrom(_, _, _, _)
FixTwoFrom(msg, bits, lo, hi) ==
    IF lo > hi THEN [bit |-> -1, msg |-> msg]
    ELSE IF lo = hi THEN FixTwoInner(msg, bits, lo, lo + 1, bits - 1)
    ELSE OrElse(FixTwoFrom(msg, bits, lo, (lo + hi) \div 2),
                FixTwoFrom(msg, bits, ((lo + hi) \div 2) + 1, hi))

\* fixTwoBitsErrors encoding the pair as i | (j << 8)
fixTwoBitsErrors_Swapped(msg, bits) ==
    [FixTwoFrom(msg, bits, 0, bits - 1) EXCEPT
        !.bit = IF @ = -1 THEN -1 ELSE (@ % 256) * 256 + (@ \div 256)]

fixTwoBitsErrors(msg, bits) == FixTwoFrom(msg, bits, 0, bits - 1)

(***************************************************************************)
(* Hex input.  A C string is the sequence of its characters before the NUL.*)
(***************************************************************************)
isspace(c) == c \in {" ", "\t", "\n", "\r", "\f"}

HexDigitsLower == << "0", "1", "2", "3", "4", "5", "6", "7", "8", "9",
                     "a", "b", "c", "d", "e", "f" >>
HexDigitsUpper == << "0", "1", "2", "3", "4", "5", "6", "7", "8", "9",
                     "A", "B", "C", "D", "E", "F" >>

\* tolower() on the characters that matter to hexDigitVal
tolower(c) == IF \E i \in 11..16 : HexDigitsUpper[i] = c
              THEN HexDigitsLower[CHOOSE i \in 11..16 : HexDigitsUpper[i] = c]
              ELSE c

hexDigitVal(c0) ==
    LET c == tolower(c0)
    IN IF \E i \in 1..16 : HexDigitsLower[i] = c
       THEN (CHOOSE i \in 1..16 : HexDigitsLower[i] = c) - 1
       ELSE -1

\* while (l && isspace(hex[l-1])) { hex[l-1] = '\0'; l--; }
RECURSIVE StripRight(_)
StripRight(s) == IF Len(s) > 0 /\ isspace(s[Len(s)])
                 THEN StripRight(SubSeq(s, 1, Len(s) - 1)) ELSE s

\* while (isspace(*hex)) { hex++; l--; }
RECURSIVE StripLeft(_)
StripLeft(s) == IF Len(s) > 0 /\ isspace(s[1]) THEN StripLeft(Tail(s)) ELSE s

\* for (j = 0; j < l; j += 2): hex is "*" digits ";", l the number of digits;
\* C's hex[j] is h[j + 2].  Returns the buffer as the loop leaves it.
RECURSIVE HexFill(_, _, _, _)
HexFill(h, l, j, msg) ==
    IF j >= l THEN msg
    ELSE LET high == hexDigitVal(h[j + 2])
             low == hexDigitVal(h[j + 3])
         IN IF high = -1 \/ low = -1 THEN msg
            ELSE HexFill(h, l, j + 2, [msg EXCEPT ![(j \div 2) + 1] = high * 16 + low])

\* hexToBin(hex, msg): the contents of msg when the call returns (its return
\* value is 0 on every path).  msg0 is what the buffer held before the call.
hexToBin(hex, msg0) ==
    LET h == StripLeft(StripRight(hex))
        l == Len(h)
    IN IF l < 2 \/ h[1] # "*" \/ h[l] # ";" THEN msg0
       ELSE IF l - 2 > MODES_LONG_MSG_BYTES * 2 THEN msg0
       ELSE HexFill(h, l - 2, 0, msg0)

\* sprintf "%02X" of each of the first n bytes
RECURSIVE HexUpper(_, _)
HexUpper(msg, n) ==
    IF n = 0 THEN << >>
    ELSE HexUpper(msg, n - 1)
         \o << HexDigitsUpper[(msg[n] \div 16) + 1], HexDigitsUpper[(msg[n] % 16) + 1] >>

\* the text modesSendRawOutput hands to the raw output clients
RawOutputLine(mm) == << "*" >> \o HexUpper(mm.msg, mm.msgbits \div 8) \o << ";", "\n" >>

\* snprintf "%06x"
HexAddr(addr) ==
    LET d(k) == HexDigitsLower[((addr \div Pow2(4 * k)) % 16) + 1]
    IN << d(5), d(4), d(3), d(2), d(1), d(0) >>

(***************************************************************************)
(* Inputs.  Frames as another receiver's raw output would carry them, and  *)
(* lines that are not of the form the reader accepts.                      *)
(***************************************************************************)
ZeroMsg == << 0, 0, 0, 0, 0, 0, 0, 0, 0, 0, 0, 0, 0, 0 >>

\* DF11 all-call reply of 4840D6, parity valid
FrameDF11A == << 93, 72, 64, 214, 248, 116, 15 >>
\* DF11 all-call reply of address 000000, parity valid
FrameDF11Z == << 93, 0, 0, 0, 100, 231, 18 >>
\* DF4 altitude reply, address/parity overlaid with 4840D6
FrameDF4A == << 32, 0, 5, 176, 248, 58, 161 >>
\* the same reply overlaid with 000000
FrameDF4Z == << 32, 0, 5, 176, 176, 122, 119 >>
\* DF17 identification of 4840D6, parity valid
FrameDF17 == << 141, 72, 64, 214, 32, 44, 195, 113, 195, 44, 224, 87, 96, 152 >>
\* FrameDF17 with bit 37 flipped
FrameDF17E1 == << 141, 72, 64, 214, 36, 44, 195, 113, 195, 44, 224, 87, 96, 152 >>
\* FrameDF11A with bits 20 and 30 flipped
FrameDF11E2 == << 93, 72, 72, 212, 248, 116, 15 >>
\* FrameDF17 with bits 5 and 6 flipped
FrameDF17E2 == << 139, 72, 64, 214, 32, 44, 195, 113, 195, 44, 224, 87, 96, 152 >>
\* DF19 (military extended squitter), parity valid
FrameDF19 == << 152, 72, 64, 214, 1, 2, 3, 4, 5, 6, 7, 145, 228, 12 >>

\* DF11 all-call replies of ABCDEF and 3C6614, parity valid
FrameDF11B == << 93, 171, 205, 239, 138, 106, 179 >>
FrameDF11C == << 93, 60, 102, 20, 195, 21, 210 >>
\* DF17 airborne positions of 4840D6, parity valid: an even report, the odd
\* report of the same place, and an odd report from a latitude whose zone
\* count differs
FramePosEven == << 141, 72, 64, 214, 88, 195, 130, 207, 126, 155, 166, 140, 222, 55 >>
FramePosOdd == << 141, 72, 64, 214, 88, 195, 134, 178, 131, 235, 122, 110, 174, 240 >>
FramePosOddFar == << 141, 72, 64, 214, 88, 195, 135, 49, 219, 235, 122, 41, 56, 230 >>

Frames == { FrameDF11A, FrameDF11Z, FrameDF4A, FrameDF4Z, FrameDF17,
            FrameDF17E1, FrameDF11E2, FrameDF17E2, FrameDF19 }

\* "*" hex digits ";" for the bytes given
HexLine(bytes) == << "*" >> \o HexUpper(bytes, Len(bytes)) \o << ";" >>

GoodLines == { HexLine(f) : f \in Frames }

BadLines ==
    { Tail(HexLine(FrameDF11A)),                                 \* no "*"
      [HexLine(FrameDF11A) EXCEPT ![4] = "G"],                   \* not a digit
      << "*", "5", "D", "4", ";" >>,                             \* odd digits
      HexLine(FrameDF17 \o << 0 >>) }                           \* 30 digits

Lines == GoodLines \cup BadLines

\* the form the reader is specified to accept: "*", an even number of hex
\* digits, at most 28, ";", with white space around it
WellFormedLine(line) ==
    LET h == StripLeft(StripRight(line))
        l == Len(h)
    IN /\ l >= 2 /\ h[1] = "*" /\ h[l] = ";"
       /\ (l - 2) % 2 = 0
       /\ l - 2 <= 2 * MODES_LONG_MSG_BYTES
       /\ \A k \in 2..(l - 1) : hexDigitVal(h[k]) # -1

\* the command lines explored: default plus --net; --aggressive --interactive
\* --net; --no-fix --no-crc-check --net; --stats
Configs ==
    { [fix_errors |-> TRUE, aggressive |-> FALSE, check_crc |-> TRUE,
       interactive |-> FALSE, net |-> TRUE, stats |-> FALSE],
      [fix_errors |-> TRUE, aggressive |-> TRUE, check_crc |-> TRUE,
       interactive |-> TRUE, net |-> TRUE, stats |-> FALSE],
      [fix_errors |-> FALSE, aggressive |-> FALSE, check_crc |-> FALSE,
       interactive |-> FALSE, net |-> TRUE, stats |-> FALSE],
      [fix_errors |-> TRUE, aggressive |-> FALSE, check_crc |-> TRUE,
       interactive |-> FALSE, net |-> FALSE, stats |-> TRUE] }

(***************************************************************************)
(* Bounds of the exploration.                                              *)
(***************************************************************************)
\* mstime() when the program starts
BootMs == 1000000
\* frames taken in one behaviour
MaxFrames == 2
\* connections accepted per service in one behaviour
MaxClients == 1
\* messages handed to the tracker in one behaviour
MaxTrackMsgs == 4

\* the instants the clock is read at while frames are decoded: the start, and
\* MODES_ICAO_CACHE_TTL seconds and one second more after it
Instants == { BootMs, BootMs + MODES_ICAO_CACHE_TTL * 1000,
              BootMs + (MODES_ICAO_CACHE_TTL + 1) * 1000 }

\* The buffers hexToBin can leave after n lines, the first buffer being
\* zeroes.
RECURSIVE BuffersAfter(_)
BuffersAfter(n) ==
    IF n = 0 THEN { ZeroMsg }
    ELSE BuffersAfter(n - 1)
         \cup { hexToBin(l, g) : l \in Lines, g \in BuffersAfter(n - 1) }

KnownBuffers == BuffersAfter(MaxFrames)

\* modesChecksum over each known buffer, computed once
ChecksumTable ==
    { [msg |-> m, crc |-> modesChecksum(m, modesMessageLenByType(m[1] \div 8))] :
        m \in KnownBuffers }

\* modesChecksum(msg, bits), looked up where the table has it
ChecksumLookup(entries, msg, bits) ==
    IF entries # {} /\ bits = modesMessageLenByType(msg[1] \div 8)
    THEN (CHOOSE e \in entries : TRUE).crc
    ELSE modesChecksum(msg, bits)

Checksum(msg, bits) ==
    ChecksumLookup({ e \in ChecksumTable : e.msg = msg }, msg, bits)

(***************************************************************************)
(* ICAO recency cache.  A uint32_t is <<high 16 bits, low 16 bits>>.       *)
(***************************************************************************)
\* (x * y) mod 2^16 for 16-bit x, y, without leaving 31 bits
MulLow16(x, y) == ((x % 256) * y + (((x \div 256) * y) % 256) * 256) % 65536

\* floor(x * y / 2^16) for 16-bit x, y
MulHigh16(x, y) ==
    LET p0 == (x % 256) * y
        p1 == (x \div 256) * y
    IN ((p0 + (p1 % 256) * 256) \div 65536) + (p1 \div 256)

\* a = ((a >> 16) ^ a) * 0x45d9f3b, in 32 bits
HashRound(a) ==
    LET hi == a[1]
        lo == Xor(a[1], a[2])
        mh == 1117      \* 0x045d
        ml == 40763     \* 0x9f3b
    IN << (MulHigh16(lo, ml) + MulLow16(hi, ml) + MulLow16(lo, mh)) % 65536,
          MulLow16(lo, ml) >>

ICAOCacheHashAddress(addr) ==
    LET a0 == << addr \div 65536, addr % 65536 >>
        a1 == HashRound(a0)
        a2 == HashRound(a1)
    IN Xor(a2[1], a2[2]) % MODES_ICAO_CACHE_LEN

\* Modes.icao_cache after memset(0): a slot never written reads as {0, 0}.
\* The cache is kept as a function on the slots written so far.
CacheSlot(cache, h) ==
    IF h \in DOMAIN cache THEN cache[h] ELSE [addr |-> 0, t |-> 0]

\* tsec is time(NULL)
addRecentlySeenICAOAddr(cache, addr, tsec) ==
    LET h == ICAOCacheHashAddress(addr)
    IN [s \in (DOMAIN cache) \cup {h} |->
          IF s = h THEN [addr |-> addr, t |-> tsec] ELSE cache[s]]

\* the lookup without the test of the age of the entry
ICAOAddressWasRecentlySeen_AnyAge(cache, addr, tsec) ==
    CacheSlot(cache, ICAOCacheHashAddress(addr)).addr # 0
    /\ CacheSlot(cache, ICAOCacheHashAddress(addr)).addr = addr

\* lines 724-730
ICAOAddressWasRecentlySeen(cache, addr, tsec) ==
    LET h == ICAOCacheHashAddress(addr)
        a == CacheSlot(cache, h).addr
        t == CacheSlot(cache, h).t
    IN a # 0 /\ a = addr /\ tsec - t <= MODES_ICAO_CACHE_TTL

(***************************************************************************)
(* Frame decoder.                                                          *)
(***************************************************************************)
APTypes == {0, 4, 5, 16, 20, 21, 24}

\* aux[lastbyte] ^= crc & 0xff, and so on for the two bytes before it, and
\* the address the three bytes make; lastbyte is the TLA+ index of the byte
XorAP(msg, lastbyte, crc) ==
    [aa1 |-> Xor(msg[lastbyte - 2], (crc \div 65536) % 256),
     aa2 |-> Xor(msg[lastbyte - 1], (crc \div 256) % 256),
     aa3 |-> Xor(msg[lastbyte], crc % 256),
     addr |-> Xor(msg[lastbyte], crc % 256)
              + Xor(msg[lastbyte - 1], (crc \div 256) % 256) * 256
              + Xor(msg[lastbyte - 2], (crc \div 65536) % 256) * 65536]

\* The address bruteForceAP recovers: the AP field xored with the CRC
\* computed over the frame.
APAddress(msg, msgbits) == XorAP(msg, msgbits \div 8, Checksum(msg, msgbits))

\* the end of bruteForceAP: r is the address recovered
APLookup(r, aa, cache, tsec) ==
    IF ICAOAddressWasRecentlySeen(cache, r.addr, tsec)
    THEN [ok |-> TRUE, aa1 |-> r.aa1, aa2 |-> r.aa2, aa3 |-> r.aa3]
    ELSE [ok |-> FALSE, aa1 |-> aa.aa1, aa2 |-> aa.aa2, aa3 |-> aa.aa3]

\* [ok, aa1, aa2, aa3]: ok is the return value, aa* what mm holds afterwards
bruteForceAP(msg, msgtype, msgbits, aa, cache, tsec) ==
    IF msgtype \in APTypes
    THEN APLookup(APAddress(msg, msgbits), aa, cache, tsec)
    ELSE [ok |-> FALSE, aa1 |-> aa.aa1, aa2 |-> aa.aa2, aa3 |-> aa.aa3]

\* returns 0 where the code has a TODO; unit 0 = feet, 1 = meters
decodeAC13Field(msg) ==
    LET m_bit == BitAt(msg[4], 6)
        q_bit == BitAt(msg[4], 4)
        n == (msg[3] % 32) * 64 + BitAt(msg[4], 7) * 32 + BitAt(msg[4], 5) * 16
             + (msg[4] % 16)
    IN IF m_bit = 0
       THEN [unit |-> 0, altitude |-> IF q_bit = 1 THEN n * 25 - 1000 ELSE 0]
       ELSE [unit |-> 1, altitude |-> 0]

decodeAC12Field(msg) ==
    LET q_bit == msg[6] % 2
        n == (msg[6] \div 2) * 16 + (msg[7] \div 16)
    IN IF q_bit = 1 THEN n * 25 - 1000 ELSE 0

ais_charset == <<
    "?", "A", "B", "C", "D", "E", "F", "G", "H", "I", "J", "K", "L", "M", "N", "O",
    "P", "Q", "R", "S", "T", "U", "V", "W", "X", "Y", "Z", "?", "?", "?", "?", "?",
    " ", "?", "?", "?", "?", "?", "?", "?", "?", "?", "?", "?", "?", "?", "?", "?",
    "0", "1", "2", "3", "4", "5", "6", "7", "8", "9", "?", "?", "?", "?", "?", "?" >>

\* the 13 bit identity (squawk) of bytes 2 and 3
\* decodeIdentity with the bit A2 taken from the place of B2
decodeIdentity_A2FromB2(msg) ==
    LET a == BitAt(msg[4], 7) * 4 + BitAt(msg[4], 3) * 2 + BitAt(msg[3], 3)
        b == BitAt(msg[4], 1) * 4 + BitAt(msg[4], 3) * 2 + BitAt(msg[4], 5)
        c == BitAt(msg[3], 0) * 4 + BitAt(msg[3], 2) * 2 + BitAt(msg[3], 4)
        d == BitAt(msg[4], 0) * 4 + BitAt(msg[4], 2) * 2 + BitAt(msg[4], 4)
    IN a * 1000 + b * 100 + c * 10 + d

decodeIdentity(msg) ==
    LET a == BitAt(msg[4], 7) * 4 + BitAt(msg[3], 1) * 2 + BitAt(msg[3], 3)
        b == BitAt(msg[4], 1) * 4 + BitAt(msg[4], 3) * 2 + BitAt(msg[4], 5)
        c == BitAt(msg[3], 0) * 4 + BitAt(msg[3], 2) * 2 + BitAt(msg[3], 4)
        d == BitAt(msg[4], 0) * 4 + BitAt(msg[4], 2) * 2 + BitAt(msg[4], 4)
    IN a * 1000 + b * 100 + c * 10 + d

decodeFlight(msg) ==
    << ais_charset[(msg[6] \div 4) + 1],
       ais_charset[((msg[6] % 4) * 16 + (msg[7] \div 16)) + 1],
       ais_charset[((msg[7] % 16) * 4 + (msg[8] \div 64)) + 1],
       ais_charset[(msg[8] % 64) + 1],
       ais_charset[(msg[9] \div 4) + 1],
       ais_charset[((msg[9] % 4) * 16 + (msg[10] \div 16)) + 1],
       ais_charset[((msg[10] % 16) * 4 + (msg[11] \div 64)) + 1],
       ais_charset[(msg[11] % 64) + 1] >>

\* (int) sqrt(x): the double result truncated by the assignment to an int,
\* looked for from r upwards, 32 at a time while that stays below it
RECURSIVE SqrtFrom(_, _)
SqrtFrom(x, r) ==
    IF (r + 32) * (r + 32) <= x THEN SqrtFrom(x, r + 32)
    ELSE IF (r + 1) * (r + 1) > x THEN r
    ELSE SqrtFrom(x, r + 1)
IntSqrt(x) == SqrtFrom(x, 0)

\* sin(d degrees) * 10^6 for d = 0..90, rounded
SinTable == <<
    0, 17452, 34899, 52336, 69756, 87156, 104528, 121869, 139173, 156434,
    173648, 190809, 207912, 224951, 241922, 258819, 275637, 292372, 309017, 325568,
    342020, 358368, 374607, 390731, 406737, 422618, 438371, 453990, 469472, 484810,
    500000, 515038, 529919, 544639, 559193, 573576, 587785, 601815, 615661, 629320,
    642788, 656059, 669131, 681998, 694658, 707107, 719340, 731354, 743145, 754710,
    766044, 777146, 788011, 798636, 809017, 819152, 829038, 838671, 848048, 857167,
    866025, 874620, 882948, 891007, 898794, 906308, 913545, 920505, 927184, 933580,
    939693, 945519, 951057, 956305, 961262, 965926, 970296, 974370, 978148, 981627,
    984808, 987688, 990268, 992546, 994522, 996195, 997564, 998630, 999391, 999848,
    1000000 >>

SinDeg(d) == IF d <= 90 THEN SinTable[d + 1] ELSE SinTable[180 - d + 1]
CosDeg(d) == IF d <= 90 THEN SinTable[90 - d + 1] ELSE 0 - SinTable[d - 90 + 1]

\* floor of atan2(y, x) in degrees for y >= 0: the last d in 0..180 whose ray
\* the vector is on or counter-clockwise of (to the precision of SinTable)
RECURSIVE FloorAngleFrom(_, _, _)
FloorAngleFrom(x, y, d) ==
    IF d < 180 /\ CosDeg(d + 1) * y - SinDeg(d + 1) * x >= 0
    THEN FloorAngleFrom(x, y, d + 1)
    ELSE d

\* mm->heading = atan2(ewv, nsv) * 360 / (2 pi), truncated by the assignment
\* to an int, plus 360 if negative
decodeHeading(ew_dir, ew_velocity, ns_dir, ns_velocity) ==
    LET ewv == IF ew_dir # 0 THEN 0 - ew_velocity ELSE ew_velocity
        nsv == IF ns_dir # 0 THEN 0 - ns_velocity ELSE ns_velocity
    IN IF ewv >= 0 THEN FloorAngleFrom(nsv, ewv, 0)
       ELSE LET f == FloorAngleFrom(nsv, 0 - ewv, 0)
            IN IF f > 0 THEN 360 - f ELSE 0

\* lines 924-929, fixSingleBitErrors having found nothing: `two` is what
\* fixTwoBitsErrors returns
AfterTwoBitsFix(msg0, msgbits, crc0, two) ==
    IF two.bit # -1
    THEN [msg |-> two.msg, crc |-> modesChecksum(two.msg, msgbits),
          crcok |-> TRUE, errorbit |-> two.bit]
    ELSE [msg |-> msg0, crc |-> crc0, crcok |-> FALSE, errorbit |-> -1]

\* lines 921-929: `one` is what fixSingleBitErrors returns
AfterSingleBitFix(msg0, msgtype, msgbits, aggressive, crc0, one) ==
    IF one.bit # -1
    THEN [msg |-> one.msg, crc |-> modesChecksum(one.msg, msgbits),
          crcok |-> TRUE, errorbit |-> one.bit]
    ELSE IF aggressive /\ msgtype = 17
    THEN AfterTwoBitsFix(msg0, msgbits, crc0, fixTwoBitsErrors(msg0, msgbits))
    ELSE [msg |-> msg0, crc |-> crc0, crcok |-> FALSE, errorbit |-> -1]

\* the repair tried with --no-fix as well
AfterChecksum_IgnoreNoFix(msg0, msgtype, msgbits, fix_errors, aggressive, crc0, crc2) ==
    IF crc0 # crc2 /\ (msgtype = 11 \/ msgtype = 17)
    THEN AfterSingleBitFix(msg0, msgtype, msgbits, aggressive, crc0,
                           fixSingleBitErrors(msg0, msgbits))
    ELSE [msg |-> msg0, crc |-> crc0, crcok |-> (crc0 = crc2), errorbit |-> -1]

\* lines 915-930: crc0 is the CRC the frame carries, crc2 the one computed
AfterChecksum(msg0, msgtype, msgbits, fix_errors, aggressive, crc0, crc2) ==
    IF crc0 # crc2 /\ fix_errors /\ (msgtype = 11 \/ msgtype = 17)
    THEN AfterSingleBitFix(msg0, msgtype, msgbits, aggressive, crc0,
                           fixSingleBitErrors(msg0, msgbits))
    ELSE [msg |-> msg0, crc |-> crc0, crcok |-> (crc0 = crc2), errorbit |-> -1]

\* CRC check and repair, lines 907-930: the buffer, crc, crcok and errorbit
\* as they stand before the field extraction.
checkAndFix(msg0, msgtype, msgbits, fix_errors, aggressive) ==
    AfterChecksum(msg0, msgtype, msgbits, fix_errors, aggressive,
                  TrailingCrc(msg0, msgbits), Checksum(msg0, msgbits))

\* checkAndFix over each known buffer under each configuration, computed once
FixTable ==
    { [msg |-> m, fix_errors |-> c.fix_errors, aggressive |-> c.aggressive,
       f |-> checkAndFix(m, m[1] \div 8, modesMessageLenByType(m[1] \div 8),
                         c.fix_errors, c.aggressive)] :
        m \in KnownBuffers, c \in Configs }

\* the entry of a table for a buffer and a configuration, if any
FixEntries(table, msg0, fix_errors, aggressive) ==
    { e \in table : e.msg = msg0 /\ e.fix_errors = fix_errors
                    /\ e.aggressive = aggressive }

FixLookup(entries, msg0, fix_errors, aggressive) ==
    IF entries # {}
    THEN (CHOOSE e \in entries : TRUE).f
    ELSE checkAndFix(msg0, msg0[1] \div 8, modesMessageLenByType(msg0[1] \div 8),
                     fix_errors, aggressive)

\* checkAndFix on the message type and length of the buffer itself, looked up
\* where the table has it
CheckedFrame(msg0, fix_errors, aggressive) ==
    FixLookup(FixEntries(FixTable, msg0, fix_errors, aggressive),
              msg0, fix_errors, aggressive)

\* lines 989-993: r is what bruteForceAP returned and left in mm
AfterBruteForce(r, cache) ==
    [crcok |-> r.ok, aa1 |-> r.aa1, aa2 |-> r.aa2, aa3 |-> r.aa3, cache |-> cache]

\* checkAddress without the test of errorbit
checkAddress_AnyValidCrc(f, msgtype, msgbits, cache, tsec) ==
    IF msgtype # 11 /\ msgtype # 17
    THEN AfterBruteForce(
             bruteForceAP(f.msg, msgtype, msgbits,
                          [aa1 |-> f.msg[2], aa2 |-> f.msg[3], aa3 |-> f.msg[4]],
                          cache, tsec),
             cache)
    ELSE [crcok |-> f.crcok, aa1 |-> f.msg[2], aa2 |-> f.msg[3], aa3 |-> f.msg[4],
          cache |-> IF f.crcok
                    THEN addRecentlySeenICAOAddr(cache,
                             f.msg[2] * 65536 + f.msg[3] * 256 + f.msg[4], tsec)
                    ELSE cache]

\* Lines 985-1003: crcok after the AP check, the address bytes, and the cache.
checkAddress(f, msgtype, msgbits, cache, tsec) ==
    IF msgtype # 11 /\ msgtype # 17
    THEN AfterBruteForce(
             bruteForceAP(f.msg, msgtype, msgbits,
                          [aa1 |-> f.msg[2], aa2 |-> f.msg[3], aa3 |-> f.msg[4]],
                          cache, tsec),
             cache)
    ELSE [crcok |-> f.crcok, aa1 |-> f.msg[2], aa2 |-> f.msg[3], aa3 |-> f.msg[4],
          cache |-> IF f.crcok /\ f.errorbit = -1
                    THEN addRecentlySeenICAOAddr(cache,
                             f.msg[2] * 65536 + f.msg[3] * 256 + f.msg[4], tsec)
                    ELSE cache]

\* Lines 932-1075, the field extraction: f is the outcome of the CRC check
\* and repair, ad that of the address check.  Fields the code leaves unset for
\* a message type hold 0 here; no caller reads them for that type.
DecodeFields(f, ad, msgtype, msgbits) ==
    LET msg == f.msg
        metype == msg[5] \div 8
        mesub == msg[5] % 8
        ac13 == decodeAC13Field(msg)
        isAC13 == msgtype \in {0, 4, 16, 20}
        isIdent == msgtype = 17 /\ metype >= 1 /\ metype <= 4
        isPos == msgtype = 17 /\ metype >= 9 /\ metype <= 18
        isVel == msgtype = 17 /\ metype = 19 /\ (mesub = 1 \/ mesub = 2)
        ew_velocity == (msg[6] % 4) * 256 + msg[7]
        ns_velocity == (msg[8] % 128) * 8 + (msg[9] \div 32)
        velocity == IF isVel
                    THEN IntSqrt(ns_velocity * ns_velocity + ew_velocity * ew_velocity)
                    ELSE 0
    IN [mm |-> [msg |-> msg, msgbits |-> msgbits, msgtype |-> msgtype,
                crcok |-> ad.crcok, crc |-> f.crc, errorbit |-> f.errorbit,
                aa1 |-> ad.aa1, aa2 |-> ad.aa2, aa3 |-> ad.aa3,
                ca |-> msg[1] % 8, metype |-> metype, mesub |-> mesub,
                fs |-> msg[1] % 8, dr |-> (msg[2] \div 8) % 32,
                um |-> (msg[2] % 8) * 8 + (msg[3] \div 32),
                identity |-> decodeIdentity(msg),
                altitude |-> IF isAC13 THEN ac13.altitude
                             ELSE IF isPos THEN decodeAC12Field(msg) ELSE 0,
                unit |-> IF isAC13 THEN ac13.unit ELSE 0,
                flight |-> IF isIdent THEN decodeFlight(msg) ELSE << >>,
                fflag |-> IF isPos THEN BitAt(msg[7], 2) * 4 ELSE 0,
                tflag |-> IF isPos THEN BitAt(msg[7], 3) * 8 ELSE 0,
                raw_latitude |-> IF isPos
                                 THEN (msg[7] % 4) * 32768 + msg[8] * 128 + (msg[9] \div 2)
                                 ELSE 0,
                raw_longitude |-> IF isPos
                                  THEN (msg[9] % 2) * 65536 + msg[10] * 256 + msg[11]
                                  ELSE 0,
                ew_dir |-> IF isVel THEN BitAt(msg[6], 2) ELSE 0,
                ew_velocity |-> IF isVel THEN ew_velocity ELSE 0,
                ns_dir |-> IF isVel THEN BitAt(msg[8], 7) ELSE 0,
                ns_velocity |-> IF isVel THEN ns_velocity ELSE 0,
                vert_rate_sign |-> IF isVel THEN BitAt(msg[9], 3) ELSE 0,
                vert_rate |-> IF isVel THEN (msg[9] % 8) * 64 + (msg[10] \div 4) ELSE 0,
                velocity |-> velocity,
                heading |-> IF isVel
                            THEN IF velocity # 0
                                 THEN decodeHeading(BitAt(msg[6], 2), ew_velocity,
                                                    BitAt(msg[8], 7), ns_velocity)
                                 ELSE 0
                            ELSE IF msgtype = 17 /\ metype = 19
                                    /\ (mesub = 3 \/ mesub = 4)
                            THEN (360 * ((msg[6] % 4) * 32 + (msg[7] \div 8))) \div 128
                            ELSE 0],
        cache |-> ad.cache]

\* f is the outcome of lines 907-930
DecodeChecked(f, msgtype, msgbits, cache, tsec) ==
    DecodeFields(f, checkAddress(f, msgtype, msgbits, cache, tsec), msgtype, msgbits)

\* The decoded message and the cache it leaves.
decodeModesMessage(msg0, cache, tsec, fix_errors, aggressive) ==
    DecodeChecked(CheckedFrame(msg0, fix_errors, aggressive),
                  msg0[1] \div 8, modesMessageLenByType(msg0[1] \div 8), cache, tsec)

(***************************************************************************)
(* CPR resolver.  A double holding an angle is the record [n, z], standing *)
(* for 360 * n / (z * 131072) degrees: every latitude and longitude the    *)
(* resolver computes has this form (z = 60 or 59 for a latitude, z = ni    *)
(* for a longitude), and 0.0 is [n |-> 0, z |-> 1].                        *)
(***************************************************************************)
CPR_SCALE == 131072
DegZero == [n |-> 0, z |-> 1]

\* C's a % b for b > 0: the sign follows the dividend
CRem(a, b) == IF a >= 0 THEN a % b ELSE 0 - ((0 - a) % b)

cprModFunction(a, b) ==
    LET res == CRem(a, b)
    IN IF res < 0 THEN res + b ELSE res

\* For each threshold T of cprNLFunction, in source order, the least n with
\* 360 * n / (z * 131072) >= T: NLBoundsEven for z = 60, NLBoundsOdd for z = 59.
NLBoundsEven == <<
    228731, 323927, 397285, 459395, 514350, 564249, 610337, 653424,
    694073, 732692, 769590, 805007, 839133, 872122, 904103, 935180,
    965445, 994974, 1023833, 1052080, 1079766, 1106936, 1133630, 1159882,
    1185725, 1211188, 1236298, 1261076, 1285547, 1309729, 1333640, 1357298,
    1380719, 1403916, 1426904, 1449694, 1472299, 1494729, 1516993, 1539103,
    1561065, 1582888, 1604579, 1626144, 1647588, 1668915, 1690128, 1711227,
    1732211, 1753072, 1773798, 1794367, 1814736, 1834828, 1854487, 1873356,
    1890395, 1900544 >>

NLBoundsOdd == <<
    224919, 318528, 390664, 451738, 505777, 554845, 600165, 642534,
    682505, 720480, 756763, 791590, 825147, 857587, 889034, 919594,
    949354, 978391, 1006769, 1034546, 1061770, 1088487, 1114736, 1140551,
    1165963, 1191002, 1215693, 1240058, 1264121, 1287900, 1311413, 1334677,
    1357707, 1380518, 1403122, 1425533, 1447760, 1469816, 1491710, 1513451,
    1535047, 1556507, 1577836, 1599041, 1620128, 1641100, 1661959, 1682707,
    1703340, 1723854, 1744235, 1764461, 1784490, 1804248, 1823579, 1842134,
    1858888, 1868869 >>

\* cprNLFunction on rlat0 (z = 60) or rlat1 (z = 59): the first threshold
\* above |lat| decides; the results run 59, 58, .. 2, and 1 past the last.
cprNLFunction(lat) ==
    LET a == IF lat.n < 0 THEN 0 - lat.n ELSE lat.n
        tab == IF lat.z = 60 THEN NLBoundsEven ELSE NLBoundsOdd
    IN 59 - Cardinality({i \in 1..58 : a >= tab[i]})

cprNFunction(lat, isodd) ==
    LET nl == cprNLFunction(lat) - isodd
    IN IF nl < 1 THEN 1 ELSE nl

\* floor(x / 131072 + 0.5)
FloorHalf(x) == (2 * x + CPR_SCALE) \div (2 * CPR_SCALE)

\* if (v >= 270) v -= 360
Wrap270(v) == IF 4 * v.n >= 3 * v.z * CPR_SCALE
              THEN [n |-> v.n - v.z * CPR_SCALE, z |-> v.z] ELSE v

\* a longitude left as it was computed
Wrap180_Never(v) == v

\* if (v > 180) v -= 360
Wrap180(v) == IF 2 * v.n > v.z * CPR_SCALE
              THEN [n |-> v.n - v.z * CPR_SCALE, z |-> v.z] ELSE v

\* the aircraft with lat and lon as decodeCPR leaves them
decodeCPR(a) ==
    LET lat0 == a.even_cprlat
        lat1 == a.odd_cprlat
        lon0 == a.even_cprlon
        lon1 == a.odd_cprlon
        j == FloorHalf(59 * lat0 - 60 * lat1)
        rlat0 == Wrap270([n |-> cprModFunction(j, 60) * CPR_SCALE + lat0, z |-> 60])
        rlat1 == Wrap270([n |-> cprModFunction(j, 59) * CPR_SCALE + lat1, z |-> 59])
    IN IF cprNLFunction(rlat0) # cprNLFunction(rlat1) THEN a
       ELSE IF a.even_cprtime > a.odd_cprtime
       THEN LET ni == cprNFunction(rlat0, 0)
                m == FloorHalf(lon0 * (cprNLFunction(rlat0) - 1)
                               - lon1 * cprNLFunction(rlat0))
            IN [a EXCEPT !.lon = Wrap180([n |-> cprModFunction(m, ni) * CPR_SCALE + lon0,
                                          z |-> ni]),
                         !.lat = rlat0]
       ELSE LET ni == cprNFunction(rlat1, 1)
                m == FloorHalf(lon0 * (cprNLFunction(rlat1) - 1)
                               - lon1 * cprNLFunction(rlat1))
            IN [a EXCEPT !.lon = Wrap180([n |-> cprModFunction(m, ni) * CPR_SCALE + lon1,
                                          z |-> ni]),
                         !.lat = rlat1]

(***************************************************************************)
(* Aircraft tracker.  Modes.aircrafts is the sequence of the list's nodes, *)
(* head first.                                                             *)
(***************************************************************************)
interactiveCreateAircraft(addr, tsec) ==
    [addr |-> addr, hexaddr |-> HexAddr(addr), flight |-> << >>,
     altitude |-> 0, speed |-> 0, track |-> 0,
     odd_cprlat |-> 0, odd_cprlon |-> 0, odd_cprtime |-> 0,
     even_cprlat |-> 0, even_cprlon |-> 0, even_cprtime |-> 0,
     lat |-> DegZero, lon |-> DegZero, seen |-> tsec, messages |-> 0]

\* interactiveFindAircraft looking at the head of the list only
interactiveFindAircraft_HeadOnly(list, addr) ==
    IF Len(list) > 0 /\ list[1].addr = addr THEN 1 ELSE 0

\* the index of the first node with this address, 0 for NULL
interactiveFindAircraft(list, addr) ==
    IF \E i \in 1..Len(list) : list[i].addr = addr
    THEN CHOOSE i \in 1..Len(list) :
            list[i].addr = addr /\ \A k \in 1..(i - 1) : list[k].addr # addr
    ELSE 0

Abs(x) == IF x < 0 THEN 0 - x ELSE x

\* updateAircraft resolving the position whatever the capture times
updateAircraft_NoTimeTest(a, mm, tsec, tms) ==
    IF mm.msgtype = 17 /\ mm.metype >= 9 /\ mm.metype <= 18
    THEN decodeCPR(IF mm.fflag # 0
                   THEN [a EXCEPT !.seen = tsec, !.messages = @ + 1,
                                  !.altitude = mm.altitude,
                                  !.odd_cprlat = mm.raw_latitude,
                                  !.odd_cprlon = mm.raw_longitude,
                                  !.odd_cprtime = tms]
                   ELSE [a EXCEPT !.seen = tsec, !.messages = @ + 1,
                                  !.altitude = mm.altitude,
                                  !.even_cprlat = mm.raw_latitude,
                                  !.even_cprlon = mm.raw_longitude,
                                  !.even_cprtime = tms])
    ELSE [a EXCEPT !.seen = tsec, !.messages = @ + 1]

\* updateAircraft taking the altitude of every extended squitter
updateAircraft_AltitudeOfAll(a, mm, tsec, tms) ==
    LET a1 == [a EXCEPT !.seen = tsec, !.messages = @ + 1]
    IN IF mm.msgtype = 0 \/ mm.msgtype = 4 \/ mm.msgtype = 20
       THEN [a1 EXCEPT !.altitude = mm.altitude]
       ELSE IF mm.msgtype = 17
       THEN IF mm.metype >= 1 /\ mm.metype <= 4
            THEN [a1 EXCEPT !.flight = mm.flight, !.altitude = mm.altitude]
            ELSE IF mm.metype >= 9 /\ mm.metype <= 18
            THEN LET a2 == IF mm.fflag # 0
                           THEN [a1 EXCEPT !.altitude = mm.altitude,
                                           !.odd_cprlat = mm.raw_latitude,
                                           !.odd_cprlon = mm.raw_longitude,
                                           !.odd_cprtime = tms]
                           ELSE [a1 EXCEPT !.altitude = mm.altitude,
                                           !.even_cprlat = mm.raw_latitude,
                                           !.even_cprlon = mm.raw_longitude,
                                           !.even_cprtime = tms]
                 IN IF Abs(a2.even_cprtime - a2.odd_cprtime) <= 10000
                    THEN decodeCPR(a2) ELSE a2
            ELSE IF mm.metype = 19 /\ (mm.mesub = 1 \/ mm.mesub = 2)
            THEN [a1 EXCEPT !.speed = mm.velocity, !.track = mm.heading,
                            !.altitude = mm.altitude]
            ELSE a1
       ELSE a1

\* lines 1465-1495: the fields of the aircraft a message updates
updateAircraft(a, mm, tsec, tms) ==
    LET a1 == [a EXCEPT !.seen = tsec, !.messages = @ + 1]
    IN IF mm.msgtype = 0 \/ mm.msgtype = 4 \/ mm.msgtype = 20
       THEN [a1 EXCEPT !.altitude = mm.altitude]
       ELSE IF mm.msgtype = 17
       THEN IF mm.metype >= 1 /\ mm.metype <= 4
            THEN [a1 EXCEPT !.flight = mm.flight]
            ELSE IF mm.metype >= 9 /\ mm.metype <= 18
            THEN LET a2 == IF mm.fflag # 0
                           THEN [a1 EXCEPT !.altitude = mm.altitude,
                                           !.odd_cprlat = mm.raw_latitude,
                                           !.odd_cprlon = mm.raw_longitude,
                                           !.odd_cprtime = tms]
                           ELSE [a1 EXCEPT !.altitude = mm.altitude,
                                           !.even_cprlat = mm.raw_latitude,
                                           !.even_cprlon = mm.raw_longitude,
                                           !.even_cprtime = tms]
                 IN IF Abs(a2.even_cprtime - a2.odd_cprtime) <= 10000
                    THEN decodeCPR(a2) ELSE a2
            ELSE IF mm.metype = 19 /\ (mm.mesub = 1 \/ mm.mesub = 2)
            THEN [a1 EXCEPT !.speed = mm.velocity, !.track = mm.heading]
            ELSE a1
       ELSE a1

\* [idx, list]: idx is the place in the list of the aircraft returned (0 for
\* NULL), list is Modes.aircrafts afterwards.  tsec is time(NULL), tms mstime().
interactiveReceiveData(mm, list, tsec, tms, check_crc) ==
    IF check_crc /\ ~mm.crcok THEN [idx |-> 0, list |-> list]
    ELSE LET addr == mm.aa1 * 65536 + mm.aa2 * 256 + mm.aa3
             found == interactiveFindAircraft(list, addr)
             list1 == IF found = 0
                      THEN << interactiveCreateAircraft(addr, tsec) >> \o list
                      ELSE list
             idx == IF found = 0 THEN 1 ELSE found
         IN [idx |-> idx,
             list |-> [list1 EXCEPT ![idx] = updateAircraft(@, mm, tsec, tms)]]

\* the loop stepping over the node that follows a removed one
RECURSIVE RemoveStaleFrom_SkipNext(_, _, _, _, _)
RemoveStaleFrom_SkipNext(list, prev, a, tsec, ttl) ==
    IF a > Len(list) THEN list
    ELSE IF tsec - list[a].seen > ttl
    THEN RemoveStaleFrom_SkipNext(SubSeq(list, 1, prev)
                                  \o SubSeq(list, a + 1, Len(list)),
                                  prev + 1, prev + 2, tsec, ttl)
    ELSE RemoveStaleFrom_SkipNext(list, a, a + 1, tsec, ttl)

\* The loop of interactiveRemoveStaleAircrafts: a is the place of the node
\* visited, prev that of the last node kept (0 for NULL).
RECURSIVE RemoveStaleFrom(_, _, _, _, _)
RemoveStaleFrom(list, prev, a, tsec, ttl) ==
    IF a > Len(list) THEN list
    ELSE IF tsec - list[a].seen > ttl
    THEN RemoveStaleFrom(IF prev = 0
                         THEN SubSeq(list, a + 1, Len(list))
                         ELSE SubSeq(list, 1, prev) \o SubSeq(list, a + 1, Len(list)),
                         prev, prev + 1, tsec, ttl)
    ELSE RemoveStaleFrom(list, a, a + 1, tsec, ttl)

interactiveRemoveStaleAircrafts(list, tsec, ttl) == RemoveStaleFrom(list, 0, 1, tsec, ttl)

\* The four sinks of useModesMessage for one message: printed on stdout, the
\* line sent to the raw output clients (<< >> for none), sent to the SBS
\* clients and the line that was sent (<< >> for none), sent to the
\* trajectory clients.
NoOutput ==
    [printed |-> FALSE, raw |-> << >>, sbs |-> FALSE, sbsmsg |-> << >>,
     trj |-> FALSE]

\* modesSendSBSOutput formats a line for these messages and returns early
\* for every other one
SBSHasLine(mm) ==
    \/ mm.msgtype \in {0, 4, 5, 11, 21}
    \/ /\ mm.msgtype = 17
       /\ \/ mm.metype = 4
          \/ mm.metype >= 9 /\ mm.metype <= 18
          \/ mm.metype = 19 /\ mm.mesub = 1

\* sprintf "%d" of n >= 0
RECURSIVE Digits(_)
Digits(n) ==
    IF n < 10 THEN << HexDigitsUpper[n + 1] >>
    ELSE Digits(n \div 10) \o << HexDigitsUpper[(n % 10) + 1] >>

\* sprintf "%d"
Decimal(n) == IF n < 0 THEN << "-" >> \o Digits(0 - n) ELSE Digits(n)

\* floor(num * 10^k / den) and what is left, from q = floor(num / den) and
\* r = num mod den
RECURSIVE Shifted(_, _, _, _)
Shifted(q, r, den, k) ==
    IF k = 0 THEN [q |-> q, r |-> r]
    ELSE Shifted(10 * q + (10 * r) \div den, (10 * r) % den, den, k - 1)

Rounded(s, den) == IF 2 * s.r >= den THEN s.q + 1 ELSE s.q

FixedText(neg, scaled) ==
    (IF neg THEN << "-" >> ELSE << >>)
    \o Digits(scaled \div 100000) \o << "." >>
    \o SubSeq(Digits(100000 + (scaled % 100000)), 2, 6)

\* sprintf "%1.5f" of the angle v, which is 45 * n / (16384 * z) degrees,
\* rounded on the exact value
Fixed5(v) ==
    FixedText(v.n < 0,
              Rounded(Shifted((45 * Abs(v.n)) \div (16384 * v.z),
                              (45 * Abs(v.n)) % (16384 * v.z), 16384 * v.z, 5),
                      16384 * v.z))

\* the columns of an SBS line, the text between its commas: "MSG", the
\* transmission type, and the columns of fields, the others being empty
SBSColumns(type, fields) ==
    [i \in 1..22 |->
        IF i = 1 THEN << "M", "S", "G" >>
        ELSE IF i = 2 THEN << type >>
        ELSE IF i \in DOMAIN fields THEN fields[i]
        ELSE << >>]

\* "%d,%d,%d,%d" of alert, emergency, spi, ground
SBSFlags(alert, emergency, spi, ground) ==
    (19 :> Decimal(alert)) @@ (20 :> Decimal(emergency))
    @@ (21 :> Decimal(spi)) @@ (22 :> Decimal(ground))

\* the flags with the places of spi and ground exchanged
SBSStatus_GroundBeforeSpi(mm) ==
    IF mm.msgtype \in {4, 5, 21}
    THEN SBSFlags(IF mm.fs \in {2, 3, 4} THEN -1 ELSE 0,
                  IF mm.identity \in {7500, 7600, 7700} THEN -1 ELSE 0,
                  IF mm.fs \in {1, 3} THEN -1 ELSE 0,
                  IF mm.fs \in {4, 5} THEN -1 ELSE 0)
    ELSE SBSFlags(0, 0, 0, 0)

\* the flags as lines 1741-1749 set them
SBSStatus(mm) ==
    IF mm.msgtype \in {4, 5, 21}
    THEN SBSFlags(IF mm.fs \in {2, 3, 4} THEN -1 ELSE 0,
                  IF mm.identity \in {7500, 7600, 7700} THEN -1 ELSE 0,
                  IF mm.fs \in {4, 5} THEN -1 ELSE 0,
                  IF mm.fs \in {1, 3} THEN -1 ELSE 0)
    ELSE SBSFlags(0, 0, 0, 0)

\* "%02X%02X%02X" of aa1, aa2, aa3 in column 5
SBSAddr(mm) == 5 :> HexUpper(<< mm.aa1, mm.aa2, mm.aa3 >>, 3)

\* modesSendSBSOutput(mm, a): the columns of the line it sends to the SBS
\* clients (a new line follows them), << >> when it returns without sending
modesSendSBSOutput(mm, a) ==
    IF mm.msgtype = 0
    THEN SBSColumns("5", SBSAddr(mm) @@ (12 :> Decimal(mm.altitude)))
    ELSE IF mm.msgtype = 4
    THEN SBSColumns("5", SBSAddr(mm) @@ (12 :> Decimal(mm.altitude))
                         @@ SBSStatus(mm))
    ELSE IF mm.msgtype = 5
    THEN SBSColumns("6", SBSAddr(mm) @@ (18 :> Decimal(mm.identity))
                         @@ SBSStatus(mm))
    ELSE IF mm.msgtype = 11
    THEN SBSColumns("8", SBSAddr(mm))
    ELSE IF mm.msgtype = 17 /\ mm.metype = 4
    THEN SBSColumns("1", SBSAddr(mm) @@ (11 :> mm.flight) @@ SBSFlags(0, 0, 0, 0))
    ELSE IF mm.msgtype = 17 /\ mm.metype >= 9 /\ mm.metype <= 18
    THEN IF a.lat.n = 0 /\ a.lon.n = 0
         THEN SBSColumns("3", SBSAddr(mm) @@ (12 :> Decimal(mm.altitude))
                              @@ SBSFlags(0, 0, 0, 0))
         ELSE SBSColumns("3", SBSAddr(mm) @@ (12 :> Decimal(mm.altitude))
                              @@ (15 :> Fixed5(a.lat)) @@ (16 :> Fixed5(a.lon))
                              @@ SBSFlags(0, 0, 0, 0))
    ELSE IF mm.msgtype = 17 /\ mm.metype = 19 /\ mm.mesub = 1
    THEN SBSColumns("4", SBSAddr(mm) @@ (13 :> Decimal(a.speed))
                         @@ (14 :> Decimal(a.track))
                         @@ (17 :> Decimal((IF mm.vert_rate_sign = 0 THEN 1 ELSE -1)
                                           * (mm.vert_rate - 1) * 64))
                         @@ SBSFlags(0, 0, 0, 0))
    ELSE IF mm.msgtype = 21
    THEN SBSColumns("6", SBSAddr(mm) @@ (18 :> Decimal(mm.identity))
                         @@ SBSStatus(mm))
    ELSE << >>

\* modesSendTrajectoryOutput returns early while either coordinate is 0
TrajectoryHasLine(a) == ~(a.lon.n = 0 \/ a.lat.n = 0)

\* lines 1249-1259: r is what the tracker returned ([idx |-> 0] when it was
\* not called)
AfterTracker(mm, r, c, sbs, trs) ==
    [list |-> r.list, idx |-> r.idx,
     out |-> [printed |-> ~c.interactive,
              raw |-> IF c.net THEN RawOutputLine(mm) ELSE << >>,
              sbs |-> r.idx # 0 /\ sbs > 0 /\ SBSHasLine(mm),
              sbsmsg |-> IF r.idx # 0 /\ sbs > 0
                         THEN modesSendSBSOutput(mm, r.list[r.idx]) ELSE << >>,
              trj |-> r.idx # 0 /\ trs > 0 /\ TrajectoryHasLine(r.list[r.idx])]]

\* useModesMessage without the test of crcok
useModesMessage_NoCrcGate(mm, list, tsec, tms, c, http, sbs, trs) ==
    IF ~c.stats
    THEN AfterTracker(mm,
             IF c.interactive \/ http > 0 \/ sbs > 0 \/ trs > 0
             THEN interactiveReceiveData(mm, list, tsec, tms, c.check_crc)
             ELSE [idx |-> 0, list |-> list],
             c, sbs, trs)
    ELSE [list |-> list, idx |-> 0, out |-> NoOutput]

\* useModesMessage calling the tracker whatever the mode and the counters
useModesMessage_TracksAlways(mm, list, tsec, tms, c, http, sbs, trs) ==
    IF ~c.stats /\ (~c.check_crc \/ mm.crcok)
    THEN AfterTracker(mm, interactiveReceiveData(mm, list, tsec, tms, c.check_crc),
                      c, sbs, trs)
    ELSE [list |-> list, idx |-> 0, out |-> NoOutput]

\* [list, idx, out]: Modes.aircrafts afterwards, the place of the aircraft
\* the tracker returned (0 for none), and what went to the sinks.
\* c is the configuration, http / sbs / trs the three stat_* counters.
useModesMessage(mm, list, tsec, tms, c, http, sbs, trs) ==
    IF ~c.stats /\ (~c.check_crc \/ mm.crcok)
    THEN AfterTracker(mm,
             IF c.interactive \/ http > 0 \/ sbs > 0 \/ trs > 0
             THEN interactiveReceiveData(mm, list, tsec, tms, c.check_crc)
             ELSE [idx |-> 0, list |-> list],
             c, sbs, trs)
    ELSE [list |-> list, idx |-> 0, out |-> NoOutput]

(***************************************************************************)
(* State.                                                                  *)
(***************************************************************************)
VARIABLES
    now,                          \* the wall clock, in milliseconds
    cfg,                          \* the options main() parsed
    icao_cache,                   \* Modes.icao_cache
    aircrafts,                    \* Modes.aircrafts
    stat_decoded_msg,
    stat_http_requests,
    stat_sbs_connections,
    stat_trajectory_connections,
    stackmsg,                     \* the bytes the last msg[] buffer was left with
    last,                         \* the last operation: the line and message
                                  \* it took, the aircraft and the output it
                                  \* gave, and Modes.aircrafts before it
    nframes,                      \* lines taken so far
    inserted,                     \* history: the addresses passed to
                                  \* addRecentlySeenICAOAddr and not overwritten
                                  \* since, with the time of the call
    heard,                        \* history: for each address the tracker
                                  \* admitted a message of and has not aged
                                  \* out since, when, and the position
                                  \* reports received
    file,                         \* the bytes of the --file input
    input,                        \* Modes.hex_data, hex_data_len, hex_buffer,
                                  \* hex_buffer_idx, data_ready and exit, and
                                  \* the offset of Modes.fd in the file
    data_mutex,                   \* the thread holding Modes.data_mutex
    rpc,                          \* where the reader thread is
    mpc,                          \* where the main thread is
    decoded,                      \* history: the lines main handed to hexToBin
    probe,                        \* history: the frame a corrupted message was
                                  \* made from and the bits flipped in it
    clients,                      \* Modes.clients: the connected clients by
                                  \* descriptor
    maxfd,                        \* Modes.maxfd
    io                            \* history: the last call made on behalf of
                                  \* the clients, what read() and write()
                                  \* returned in it, the messages it handed to
                                  \* its handler, and the clients before it

\* the client table and the record of the last call on it
net == << clients, maxfd, io >>

\* the state of the hand-over between the reader thread and main
ingest == << file, input, data_mutex, rpc, mpc, decoded >>

vars == << now, cfg, icao_cache, aircrafts, stat_decoded_msg, stat_http_requests,
           stat_sbs_connections, stat_trajectory_connections, stackmsg, last,
           nframes, inserted, heard, file, input, data_mutex, rpc, mpc, decoded,
           probe, clients, maxfd, io >>

\* the terminator of a C string
NUL == ""

\* time(NULL)
tsec == now \div 1000

NoMessage == decodeModesMessage(ZeroMsg, << >>, 0, FALSE, FALSE).mm

\* no call on behalf of the clients yet
NoCall ==
    [op |-> "none", fd |-> -1, service |-> "", reads |-> << >>, shortAt |-> 0,
     short |-> {}, handled |-> << >>, replies |-> << >>, overflows |-> 0,
     before |-> << >>, beforefd |-> -1, calls |-> 0]

\* modesInitConfig and modesInit, before the reader thread is created
Boot ==
    /\ now = BootMs
    /\ cfg \in Configs
    /\ icao_cache = << >>
    /\ aircrafts = << >>
    /\ stat_decoded_msg = 0
    /\ stat_http_requests = 0
    /\ stat_sbs_connections = 0
    /\ stat_trajectory_connections = 0
    /\ stackmsg = ZeroMsg
    /\ last = [op |-> "none", line |-> << >>, mm |-> NoMessage, idx |-> 0,
               out |-> NoOutput, before |-> << >>]
    /\ nframes = 0
    /\ inserted = << >>
    /\ heard = << >>
    /\ input = [hex_data |-> [i \in 1..MODES_HEX_LEN |-> NUL], hex_data_len |-> 0,
                hex_buffer |-> << >>, hex_buffer_idx |-> 0, fpos |-> 0,
                data_ready |-> 0, exit |-> 0]
    /\ data_mutex = "free"
    /\ rpc = "lock"
    /\ mpc = "lock"
    /\ decoded = << >>
    /\ probe = [frame |-> ZeroMsg, bits |-> {}]
    /\ clients = << >>
    /\ maxfd = -1
    /\ io = NoCall

\* no --file: the lines come from the serial port and from the network
Init == Boot /\ file = << >>

\* What a msg[] buffer declared without an initializer may hold: zeroes, or
\* the bytes the previous use of that stack slot left.
Garbage == { ZeroMsg, stackmsg }

\* The state a line leaves: msg is the buffer after hexToBin, d the outcome
\* of decodeModesMessage, u that of useModesMessage (idx is the place of the
\* aircraft in the list useModesMessage leaves); stale tells whether
\* backgroundTasks removes the stale aircraft afterwards.
Commit(op, line, msg, d, u, stale) ==
    /\ icao_cache' = d.cache
    /\ aircrafts' = IF stale
                    THEN interactiveRemoveStaleAircrafts(u.list, tsec,
                                                         MODES_INTERACTIVE_TTL)
                    ELSE u.list
    /\ stackmsg' = msg
    /\ last' = [op |-> op, line |-> line, mm |-> d.mm, idx |-> u.idx, out |-> u.out,
                before |-> aircrafts]
    /\ nframes' = nframes + 1

UseDecoded(op, line, msg, d, stale) ==
    Commit(op, line, msg, d,
           useModesMessage(d.mm, aircrafts, tsec, now, cfg, stat_http_requests,
                           stat_sbs_connections, stat_trajectory_connections),
           stale)

\* hexToBin, decodeModesMessage and useModesMessage on one line; the callers
\* do not look at what hexToBin returns.
ProcessLine(op, line, msg, stale) ==
    UseDecoded(op, line, msg,
               decodeModesMessage(msg, icao_cache, tsec, cfg.fix_errors,
                                  cfg.aggressive),
               stale)

\* backgroundTasks removes the stale aircraft with --net, and in interactive
\* mode when the screen is due for a refresh
BackgroundRemovesStale(refresh) == cfg.net \/ (cfg.interactive /\ refresh)

\* One iteration of main's loop on the line the reader handed over
MainLoop(line, garbage, refresh) ==
    /\ nframes < MaxFrames
    /\ ProcessLine("main", line, hexToBin(line, garbage),
                   BackgroundRemovesStale(refresh))
    /\ stat_decoded_msg' = stat_decoded_msg + 1
    /\ UNCHANGED ingest
    /\ UNCHANGED << probe, net >>
    /\ UNCHANGED << now, cfg, stat_http_requests, stat_sbs_connections,
                    stat_trajectory_connections, inserted, heard >>

\* decodeHexMessage on one line a raw input client sent
DecodeHexMessage(line, garbage) ==
    /\ cfg.net
    /\ nframes < MaxFrames
    /\ ProcessLine("rawin", line, hexToBin(line, garbage), FALSE)
    /\ UNCHANGED ingest
    /\ UNCHANGED << probe, net >>
    /\ UNCHANGED << now, cfg, stat_decoded_msg, stat_http_requests,
                    stat_sbs_connections, stat_trajectory_connections, inserted,
                    heard >>

\* modesAcceptClients taking one connection on the SBS or trajectory port
AcceptClient(service) ==
    /\ cfg.net
    /\ IF service = "sbs"
       THEN /\ stat_sbs_connections < MaxClients
            /\ stat_sbs_connections' = stat_sbs_connections + 1
            /\ UNCHANGED stat_trajectory_connections
       ELSE /\ stat_trajectory_connections < MaxClients
            /\ stat_trajectory_connections' = stat_trajectory_connections + 1
            /\ UNCHANGED stat_sbs_connections
    /\ UNCHANGED ingest
    /\ UNCHANGED << probe, net >>
    /\ UNCHANGED << now, cfg, icao_cache, aircrafts, stat_decoded_msg,
                    stat_http_requests, stackmsg, last, nframes, inserted, heard >>

\* handleHTTPRequest counting a request
HttpRequest ==
    /\ cfg.net
    /\ stat_http_requests < MaxClients
    /\ stat_http_requests' = stat_http_requests + 1
    /\ UNCHANGED ingest
    /\ UNCHANGED << probe, net >>
    /\ UNCHANGED << now, cfg, icao_cache, aircrafts, stat_decoded_msg,
                    stat_sbs_connections, stat_trajectory_connections, stackmsg,
                    last, nframes, inserted, heard >>

\* backgroundTasks removing the stale aircraft while main serves the network
\* only, or waits for a line
StaleRemoved ==
    /\ cfg.net \/ cfg.interactive
    /\ aircrafts' = interactiveRemoveStaleAircrafts(aircrafts, tsec,
                                                     MODES_INTERACTIVE_TTL)
    /\ last' = [last EXCEPT !.op = "age", !.before = aircrafts]
    /\ UNCHANGED ingest
    /\ UNCHANGED << probe, net >>
    /\ UNCHANGED << now, cfg, icao_cache, stat_decoded_msg, stat_http_requests,
                    stat_sbs_connections, stat_trajectory_connections, stackmsg,
                    nframes, inserted >>

RemoveStale == StaleRemoved /\ UNCHANGED heard

\* time passes
Tick(t) ==
    /\ t > now
    /\ now' = t
    /\ UNCHANGED ingest
    /\ UNCHANGED << probe, net >>
    /\ UNCHANGED << cfg, icao_cache, aircrafts, stat_decoded_msg,
                    stat_http_requests, stat_sbs_connections,
                    stat_trajectory_connections, stackmsg, last, nframes, inserted,
                    heard >>

\* The frame pipeline: lines arrive from the input file and from raw input
\* clients while no client is attached to the HTTP, SBS or trajectory port.
Next ==
    \/ \E line \in Lines, g \in Garbage, refresh \in BOOLEAN :
           MainLoop(line, g, refresh)
    \/ \E line \in Lines, g \in Garbage : DecodeHexMessage(line, g)
    \/ RemoveStale
    \/ \E t \in Instants : Tick(t)

Spec == Init /\ [][Next]_vars

(***************************************************************************)
(* The recency cache on its own: addresses are inserted as time passes.    *)
(***************************************************************************)
\* 000000, 4840D6, and an address sharing the cache slot of each
CacheAddrs == { 0, 4735190, 1824, 281 }

CacheInsert(addr) ==
    /\ icao_cache' = addRecentlySeenICAOAddr(icao_cache, addr, tsec)
    /\ inserted' = [a \in { x \in DOMAIN inserted :
                              ICAOCacheHashAddress(x) # ICAOCacheHashAddress(addr) }
                           \cup { addr } |->
                       IF a = addr THEN tsec ELSE inserted[a]]
    /\ UNCHANGED ingest
    /\ UNCHANGED << probe, net >>
    /\ UNCHANGED << now, cfg, aircrafts, stat_decoded_msg, stat_http_requests,
                    stat_sbs_connections, stat_trajectory_connections, stackmsg,
                    last, nframes, heard >>

CacheNext ==
    \/ \E addr \in CacheAddrs : CacheInsert(addr)
    \/ \E t \in Instants : Tick(t)

CacheSpec == Init /\ [][CacheNext]_vars

(***************************************************************************)
(* The tracker on its own: decoded messages are handed to                  *)
(* interactiveReceiveData, stale aircraft are removed, time passes.        *)
(***************************************************************************)
\* the message buffer a frame arrives in
Buffer(frame) == hexToBin(HexLine(frame), ZeroMsg)

\* The messages handed over: positions of 4840D6, all-call replies of two
\* more aircraft, and an altitude reply whose address is not known (crcok
\* is false for it).
TrackMsgs ==
    { decodeModesMessage(Buffer(f), << >>, 0, FALSE, FALSE).mm :
        f \in { FramePosEven, FramePosOdd, FramePosOddFar, FrameDF11B, FrameDF11C,
                FrameDF4A } }

\* the instants the tracker reads the clock at: the start, 10 s and 10.001 s
\* later, and one second past MODES_INTERACTIVE_TTL
TrackInstants == { BootMs, BootMs + 10000, BootMs + 10001,
                   BootMs + (MODES_INTERACTIVE_TTL + 1) * 1000 }

IsPosition(mm) == mm.msgtype = 17 /\ mm.metype >= 9 /\ mm.metype <= 18

\* what is known of an address no message was admitted for
Unheard == [seen |-> 0, odd |-> << >>, even |-> << >>]

\* the history after a message is admitted at tsec (seconds) / tms (ms)
Hear(h, mm, addr, ts, tms) ==
    [a \in DOMAIN h \cup { addr } |->
        IF a # addr THEN h[a]
        ELSE [seen |-> ts,
              odd |-> IF IsPosition(mm) /\ mm.fflag # 0
                      THEN << [at |-> tms, lat |-> mm.raw_latitude] >>
                      ELSE IF addr \in DOMAIN h THEN h[addr].odd ELSE << >>,
              even |-> IF IsPosition(mm) /\ mm.fflag = 0
                       THEN << [at |-> tms, lat |-> mm.raw_latitude] >>
                       ELSE IF addr \in DOMAIN h THEN h[addr].even ELSE << >>]]

\* the state interactiveReceiveData leaves: r is what it returns
Tracked(mm, r) ==
    /\ aircrafts' = r.list
    /\ last' = [op |-> "track", line |-> << >>, mm |-> mm, idx |-> r.idx,
                out |-> NoOutput, before |-> aircrafts]
    /\ nframes' = nframes + 1
    /\ heard' = IF ~cfg.check_crc \/ mm.crcok
                THEN Hear(heard, mm, mm.aa1 * 65536 + mm.aa2 * 256 + mm.aa3,
                          tsec, now)
                ELSE heard
    /\ UNCHANGED ingest
    /\ UNCHANGED << probe, net >>
    /\ UNCHANGED << now, cfg, icao_cache, stat_decoded_msg, stat_http_requests,
                    stat_sbs_connections, stat_trajectory_connections, stackmsg,
                    inserted >>

TrackIngest(mm) ==
    /\ nframes < MaxTrackMsgs
    /\ Tracked(mm, interactiveReceiveData(mm, aircrafts, tsec, now, cfg.check_crc))

\* the history forgets what is older than the ttl when stale aircraft go
TrackAgeOut ==
    /\ StaleRemoved
    /\ heard' = [a \in { x \in DOMAIN heard :
                           tsec - heard[x].seen <= MODES_INTERACTIVE_TTL } |->
                    heard[a]]

TrackerNext ==
    \/ \E mm \in TrackMsgs : TrackIngest(mm)
    \/ TrackAgeOut
    \/ \E t \in TrackInstants : Tick(t)

TrackerSpec == Init /\ [][TrackerNext]_vars

(***************************************************************************)
(* useModesMessage on decoded messages while clients come to the HTTP, SBS *)
(* and trajectory ports.                                                   *)
(***************************************************************************)
\* the state useModesMessage leaves: u is its outcome
Used(mm, u) ==
    /\ aircrafts' = u.list
    /\ last' = [op |-> "use", line |-> << >>, mm |-> mm, idx |-> u.idx,
                out |-> u.out, before |-> aircrafts]
    /\ nframes' = nframes + 1
    /\ UNCHANGED ingest
    /\ UNCHANGED << probe, net >>
    /\ UNCHANGED << now, cfg, icao_cache, stat_decoded_msg, stat_http_requests,
                    stat_sbs_connections, stat_trajectory_connections, stackmsg,
                    inserted, heard >>

UseMessage(mm) ==
    /\ nframes < MaxFrames
    /\ Used(mm, useModesMessage(mm, aircrafts, tsec, now, cfg, stat_http_requests,
                                stat_sbs_connections, stat_trajectory_connections))

SinkNext ==
    \/ \E mm \in TrackMsgs : UseMessage(mm)
    \/ \E service \in {"sbs", "trs"} : AcceptClient(service)
    \/ HttpRequest

SinkSpec == Init /\ [][SinkNext]_vars

(***************************************************************************)
(* --file: the reader thread fills Modes.hex_data a line at a time and     *)
(* main takes each line and decodes it, under Modes.data_mutex and         *)
(* Modes.data_cond.                                                        *)
(***************************************************************************)
MaxFileLines == 2

\* the lines of the files: an all-call reply of 4840D6 and an altitude reply
\* of the same aircraft
FileLineChoice == { HexLine(FrameDF11A), HexLine(FrameDF4A) }

RECURSIVE FilesOf(_)
FilesOf(n) ==
    IF n = 0 THEN { << >> }
    ELSE FilesOf(n - 1)
         \cup { f \o l \o << "\n" >> : f \in FilesOf(n - 1), l \in FileLineChoice }

\* four lines, 68 bytes: more than one read() fills
LongFile ==
    HexLine(FrameDF11A) \o << "\n" >> \o HexLine(FrameDF4A) \o << "\n" >>
    \o HexLine(FrameDF11A) \o << "\n" >> \o HexLine(FrameDF4A) \o << "\n" >>

\* one line of 66 characters, two more than hex_data holds: an extended
\* squitter with 18 characters of another frame after its 28 hex digits
OverlongLine ==
    SubSeq(HexLine(FrameDF17), 1, 29) \o SubSeq(HexLine(FrameDF17), 2, 29)
    \o SubSeq(HexLine(FrameDF11A), 2, 10)
OverlongFile == OverlongLine \o << "\n" >>

\* the empty file, files of whole lines, files whose last line has no
\* newline after it, and a file with a line longer than hex_data
Files ==
    FilesOf(MaxFileLines)
    \cup { f \o SubSeq(HexLine(FrameDF4A), 1, 5) : f \in FilesOf(MaxFileLines - 1) }
    \cup { LongFile, OverlongFile }

Min(a, b) == IF a < b THEN a ELSE b

\* the string a char array holds: the chars before the first NUL
CString(data) ==
    IF \E i \in 1..Len(data) : data[i] = NUL
    THEN SubSeq(data, 1,
                (CHOOSE i \in 1..Len(data) :
                    /\ data[i] = NUL
                    /\ \A k \in 1..(i - 1) : data[k] # NUL) - 1)
    ELSE data

\* What a string function reads after the 64th char of a hex_data that holds
\* no NUL: the bytes of hex_data_len, which follows it in the struct and is
\* 64 then, "@" and zeros with the low byte first, zeros with the high one
\* first.
Overrun(data) ==
    IF \E i \in 1..Len(data) : data[i] = NUL THEN { << >> }
    ELSE { << >>, << "@" >> }

\* The inner loop of readHexData: r is the input state, f the file.  read()
\* gives the next MODES_HEX_LEN bytes of the file, or what is left of it.
RECURSIVE ReadLine(_, _)
ReadLine(r, f) ==
    IF r.hex_buffer_idx >= Len(r.hex_buffer)
    THEN IF Min(MODES_HEX_LEN, Len(f) - r.fpos) = 0
         THEN [r EXCEPT !.hex_buffer = << >>, !.exit = 1]
         ELSE ReadLine([r EXCEPT
                           !.hex_buffer =
                               SubSeq(f, r.fpos + 1,
                                      r.fpos + Min(MODES_HEX_LEN, Len(f) - r.fpos)),
                           !.fpos = @ + Min(MODES_HEX_LEN, Len(f) - r.fpos),
                           !.hex_buffer_idx = 0], f)
    ELSE IF r.hex_buffer[r.hex_buffer_idx + 1] = "\n"
    THEN [r EXCEPT !.hex_data[r.hex_data_len + 1] = NUL,
                   !.hex_buffer_idx = @ + 1]
    ELSE IF r.hex_data_len >= MODES_HEX_LEN
    THEN r
    ELSE ReadLine([r EXCEPT
                      !.hex_data[r.hex_data_len + 1] =
                          r.hex_buffer[r.hex_buffer_idx + 1],
                      !.hex_data_len = @ + 1,
                      !.hex_buffer_idx = @ + 1], f)

\* readHexData leaving the loop at the end of the file without setting
\* data_ready
readHexData_StopAtEof(r, f) ==
    [ReadLine([r EXCEPT !.hex_data_len = 0], f) EXCEPT
        !.data_ready = IF ReadLine([r EXCEPT !.hex_data_len = 0], f).exit = 1
                       THEN r.data_ready ELSE 1]

\* lines 403-423 of readHexData: one line is put in hex_data and data_ready
\* is set, at the end of the file too
readHexData(r, f) ==
    [ReadLine([r EXCEPT !.hex_data_len = 0], f) EXCEPT !.data_ready = 1]

\* pthread_cond_signal: the other thread, if it waits on data_cond, is woken
Signalled(pc) == IF pc = "wait" THEN "woken" ELSE pc

\* the variables the hand-over leaves alone
Pipeline == << now, cfg, icao_cache, aircrafts, stat_decoded_msg,
               stat_http_requests, stat_sbs_connections,
               stat_trajectory_connections, stackmsg, last, nframes, inserted,
               heard >>

\* line 389: the reader thread takes the mutex for the first time
ReaderLock ==
    /\ rpc = "lock"
    /\ data_mutex = "free"
    /\ data_mutex' = "reader"
    /\ rpc' = "head"
    /\ UNCHANGED << file, input, mpc, decoded >>
    /\ UNCHANGED Pipeline
    /\ UNCHANGED << probe, net >>

\* the reader not waiting for main: it reads the next line over the one that
\* was not taken yet
ReaderWait_Overwrites ==
    /\ rpc = "head"
    /\ input.data_ready = 1
    /\ input' = readHexData(input, file)
    /\ mpc' = Signalled(mpc)
    /\ rpc' = "head"
    /\ UNCHANGED << file, data_mutex, decoded >>
    /\ UNCHANGED Pipeline
    /\ UNCHANGED << probe, net >>

\* lines 391-394: the line was not taken yet, pthread_cond_wait
ReaderWait ==
    /\ rpc = "head"
    /\ input.data_ready = 1
    /\ data_mutex' = "free"
    /\ rpc' = "wait"
    /\ UNCHANGED << file, input, mpc, decoded >>
    /\ UNCHANGED Pipeline
    /\ UNCHANGED << probe, net >>

\* pthread_cond_wait returning with the mutex
ReaderWake ==
    /\ rpc = "woken"
    /\ data_mutex = "free"
    /\ data_mutex' = "reader"
    /\ rpc' = "head"
    /\ UNCHANGED << file, input, mpc, decoded >>
    /\ UNCHANGED Pipeline
    /\ UNCHANGED << probe, net >>

\* lines 395-399: with --interactive the mutex is given up for usleep
ReaderSleep ==
    /\ rpc = "head"
    /\ input.data_ready = 0
    /\ cfg.interactive
    /\ data_mutex' = "free"
    /\ rpc' = "sleep"
    /\ UNCHANGED << file, input, mpc, decoded >>
    /\ UNCHANGED Pipeline
    /\ UNCHANGED << probe, net >>

\* line 400: the mutex is taken again after usleep
ReaderRelock ==
    /\ rpc = "sleep"
    /\ data_mutex = "free"
    /\ data_mutex' = "reader"
    /\ rpc' = "fill"
    /\ UNCHANGED << file, input, mpc, decoded >>
    /\ UNCHANGED Pipeline
    /\ UNCHANGED << probe, net >>

\* lines 403-425: a line is read and handed over, main is signalled
ReaderFill ==
    /\ \/ rpc = "fill"
       \/ rpc = "head" /\ input.data_ready = 0 /\ ~cfg.interactive
    /\ input' = readHexData(input, file)
    /\ mpc' = Signalled(mpc)
    /\ rpc' = "head"
    /\ UNCHANGED << file, data_mutex, decoded >>
    /\ UNCHANGED Pipeline
    /\ UNCHANGED << probe, net >>

\* line 2342: main takes the mutex before its loop
MainLock ==
    /\ mpc = "lock"
    /\ data_mutex = "free"
    /\ data_mutex' = "main"
    /\ mpc' = "head"
    /\ UNCHANGED << file, input, rpc, decoded >>
    /\ UNCHANGED Pipeline
    /\ UNCHANGED << probe, net >>

\* lines 2344-2347: no line is ready, pthread_cond_wait
MainWait ==
    /\ mpc = "head"
    /\ input.data_ready = 0
    /\ data_mutex' = "free"
    /\ mpc' = "wait"
    /\ UNCHANGED << file, input, rpc, decoded >>
    /\ UNCHANGED Pipeline
    /\ UNCHANGED << probe, net >>

\* pthread_cond_wait returning with the mutex
MainWake ==
    /\ mpc = "woken"
    /\ data_mutex = "free"
    /\ data_mutex' = "main"
    /\ mpc' = "head"
    /\ UNCHANGED << file, input, rpc, decoded >>
    /\ UNCHANGED Pipeline
    /\ UNCHANGED << probe, net >>

\* main keeping the mutex while it processes the line
MainTake_KeepsMutex ==
    /\ mpc = "head"
    /\ input.data_ready = 1
    /\ \E garbage \in Garbage, tail \in Overrun(input.hex_data) :
           /\ stackmsg' = hexToBin(CString(input.hex_data) \o tail, garbage)
           /\ decoded' = Append(decoded, CString(input.hex_data) \o tail)
    /\ input' = [input EXCEPT !.data_ready = 0]
    /\ rpc' = Signalled(rpc)
    /\ mpc' = "process"
    /\ UNCHANGED << now, cfg, icao_cache, aircrafts, stat_decoded_msg,
                    stat_http_requests, stat_sbs_connections,
                    stat_trajectory_connections, last, nframes, inserted, heard,
                    file, data_mutex >>
    /\ UNCHANGED << probe, net >>

\* main clearing data_ready without pthread_cond_signal
MainTake_NoSignal ==
    /\ mpc = "head"
    /\ input.data_ready = 1
    /\ \E garbage \in Garbage, tail \in Overrun(input.hex_data) :
           /\ stackmsg' = hexToBin(CString(input.hex_data) \o tail, garbage)
           /\ decoded' = Append(decoded, CString(input.hex_data) \o tail)
    /\ input' = [input EXCEPT !.data_ready = 0]
    /\ data_mutex' = "free"
    /\ mpc' = "process"
    /\ UNCHANGED << now, cfg, icao_cache, aircrafts, stat_decoded_msg,
                    stat_http_requests, stat_sbs_connections,
                    stat_trajectory_connections, last, nframes, inserted, heard,
                    file, rpc >>
    /\ UNCHANGED << probe, net >>

\* lines 2348-2361: hexToBin on hex_data, data_ready cleared, the reader
\* signalled, the mutex released
MainTake ==
    /\ mpc = "head"
    /\ input.data_ready = 1
    /\ \E garbage \in Garbage, tail \in Overrun(input.hex_data) :
           /\ stackmsg' = hexToBin(CString(input.hex_data) \o tail, garbage)
           /\ decoded' = Append(decoded, CString(input.hex_data) \o tail)
    /\ input' = [input EXCEPT !.data_ready = 0]
    /\ rpc' = Signalled(rpc)
    /\ data_mutex' = "free"
    /\ mpc' = "process"
    /\ UNCHANGED << now, cfg, icao_cache, aircrafts, stat_decoded_msg,
                    stat_http_requests, stat_sbs_connections,
                    stat_trajectory_connections, last, nframes, inserted, heard,
                    file >>
    /\ UNCHANGED << probe, net >>

\* lines 2362-2366: the message is decoded, counted and used, and
\* backgroundTasks runs
MainProcess(refresh) ==
    /\ mpc = "process"
    /\ ProcessLine("main", decoded[Len(decoded)], stackmsg,
                   BackgroundRemovesStale(refresh))
    /\ stat_decoded_msg' = stat_decoded_msg + 1
    /\ mpc' = "relock"
    /\ UNCHANGED << now, cfg, stat_http_requests, stat_sbs_connections,
                    stat_trajectory_connections, inserted, heard, file, input,
                    data_mutex, rpc, decoded >>
    /\ UNCHANGED << probe, net >>

\* lines 2367-2368: the mutex is taken again and Modes.exit looked at; main
\* leaves the loop and returns 0 when it is set
MainRelock ==
    /\ mpc = "relock"
    /\ data_mutex = "free"
    /\ data_mutex' = "main"
    /\ mpc' = IF input.exit = 1 THEN "done" ELSE "head"
    /\ UNCHANGED << file, input, rpc, decoded >>
    /\ UNCHANGED Pipeline
    /\ UNCHANGED << probe, net >>

ReaderStep ==
    ReaderLock \/ ReaderWait \/ ReaderWake \/ ReaderSleep \/ ReaderRelock
    \/ ReaderFill

MainStep ==
    \/ MainLock \/ MainWait \/ MainWake \/ MainRelock
    \/ MainTake
    \/ \E refresh \in BOOLEAN : MainProcess(refresh)

IngestInit == Boot /\ file \in Files

IngestNext == ReaderStep \/ MainStep

IngestSpec == IngestInit /\ [][IngestNext]_vars

\* the reader holds the mutex and is about to read a line
FillPending ==
    rpc = "fill" \/ (rpc = "head" /\ input.data_ready = 0 /\ ~cfg.interactive)

\* main holds the mutex and a line is ready
TakePending == mpc = "head" /\ input.data_ready = 1

\* Both threads are scheduled again and again: a thread that can take a step
\* takes one.  ReaderFill, MainTake and MainProcess wait for nothing (each is
\* enabled exactly when its thread is at it), so their weak fairness is that
\* the thread does not stay at the step for ever.
IngestFair ==
    /\ IngestSpec
    /\ WF_vars(ReaderLock \/ ReaderWait \/ ReaderWake \/ ReaderSleep \/ ReaderRelock)
    /\ WF_vars(MainLock \/ MainWait \/ MainWake \/ MainRelock)
    /\ []<>(~FillPending)
    /\ []<>(~TakePending)
    /\ []<>(mpc # "process")

(***************************************************************************)
(* Repair: a valid frame arrives with one or two bits flipped and is       *)
(* decoded.                                                                *)
(***************************************************************************)
\* valid frames: two all-call replies and two extended squitters
RepairFrames == { FrameDF11A, FrameDF11B, FrameDF17, FramePosEven }

\* The bits flipped one at a time: every bit after the 5-bit DF field of an
\* all-call reply; of an extended squitter the bits next to the DF field, at
\* byte boundaries, on both sides of the start of the CRC field, and the last
\* ones.
BitsAfterDF(frame) ==
    IF Len(frame) * 8 = MODES_SHORT_MSG_BITS
    THEN 5..(MODES_SHORT_MSG_BITS - 1)
    ELSE { 5, 6, 7, 8, 31, 32, 40, 87, 88, 89, 110, 111 }

\* the pairs of bits flipped: neighbours and bits far apart, early and late in
\* the order fixTwoBitsErrors tries them
PairBits == { 5, 6, 20, 111 }

\* the frame in a msg[] buffer of MODES_LONG_MSG_BYTES bytes
InBuffer(frame) ==
    [j \in 1..MODES_LONG_MSG_BYTES |-> IF j <= Len(frame) THEN frame[j] ELSE 0]

\* the state decodeModesMessage leaves: d is its outcome on msg
Decoded(msg, d) ==
    /\ icao_cache' = d.cache
    /\ stackmsg' = msg
    /\ last' = [op |-> "decode", line |-> << >>, mm |-> d.mm, idx |-> 0,
                out |-> NoOutput, before |-> aircrafts]
    /\ nframes' = nframes + 1
    /\ UNCHANGED << now, cfg, aircrafts, stat_decoded_msg, stat_http_requests,
                    stat_sbs_connections, stat_trajectory_connections, inserted,
                    heard, clients, maxfd, io >>
    /\ UNCHANGED ingest

DecodeBuffer(msg) ==
    Decoded(msg, decodeModesMessage(msg, icao_cache, tsec, cfg.fix_errors,
                                    cfg.aggressive))

\* a frame with bit k flipped is decoded
FlipOne(frame, k) ==
    /\ probe.bits = {}
    /\ probe' = [frame |-> InBuffer(frame), bits |-> { k }]
    /\ DecodeBuffer(FlipBit(InBuffer(frame), k))

\* a frame with bits j and i flipped is decoded
FlipTwo(frame, j, i) ==
    /\ probe.bits = {}
    /\ j < i
    /\ probe' = [frame |-> InBuffer(frame), bits |-> { j, i }]
    /\ DecodeBuffer(FlipBit(FlipBit(InBuffer(frame), j), i))

RepairNext ==
    \/ \E frame \in RepairFrames : \E k \in BitsAfterDF(frame) : FlipOne(frame, k)
    \/ \E j, i \in PairBits : FlipTwo(FrameDF17, j, i)
    \/ FlipTwo(FramePosEven, 5, 6)

\* --stats changes nothing in decodeModesMessage
RepairInit == Init /\ ~cfg.stats

RepairSpec == RepairInit /\ [][RepairNext]_vars

(***************************************************************************)
(* The network services: clients are accepted, read from and written to.   *)
(***************************************************************************)
MODES_NET_MAX_FD == 1024
MODES_CLIENT_BUF_SIZE == 1024

\* the listening sockets Modes.ros, ris, https, sbsos and trs
Services == { "rawo", "rawi", "http", "sbs", "trs" }

\* The client table is [tab, maxfd]: tab maps each descriptor that has a
\* client to [service, fd, buflen, buf], buf being the first buflen bytes of
\* the C buffer (the bytes after them are written before they are read).
Greatest(S) == IF S = {} THEN -1 ELSE CHOOSE j \in S : \A k \in S : k <= j

\* modesFreeClient that leaves Modes.maxfd as it is
modesFreeClient_KeepMaxfd(t, fd) ==
    [tab |-> [f \in DOMAIN t.tab \ { fd } |-> t.tab[f]], maxfd |-> t.maxfd]

\* lines 1680-1702
modesFreeClient(t, fd) ==
    [tab |-> [f \in DOMAIN t.tab \ { fd } |-> t.tab[f]],
     maxfd |-> IF t.maxfd = fd
               THEN Greatest({ j \in DOMAIN t.tab : j < fd })
               ELSE t.maxfd]

\* the loop leaving at the first write() that came back short
RECURSIVE SendLoop_StopAtShort(_, _, _, _, _)
SendLoop_StopAtShort(t, service, short, j, writes) ==
    IF j > t.maxfd THEN [t |-> t, writes |-> writes]
    ELSE IF j \in DOMAIN t.tab /\ t.tab[j].service = service
    THEN IF j \in short
         THEN [t |-> modesFreeClient(t, j), writes |-> Append(writes, j)]
         ELSE SendLoop_StopAtShort(t, service, short, j + 1, Append(writes, j))
    ELSE SendLoop_StopAtShort(t, service, short, j + 1, writes)

\* for (j = 0; j <= Modes.maxfd; j++): short holds the descriptors write()
\* returns less than len on, writes the descriptors write() was called on so
\* far.  The result is [t, writes]: the table and the calls of write() when
\* the loop ends.
RECURSIVE SendLoop(_, _, _, _, _)
SendLoop(t, service, short, j, writes) ==
    IF j > t.maxfd THEN [t |-> t, writes |-> writes]
    ELSE IF j \in DOMAIN t.tab /\ t.tab[j].service = service
    THEN SendLoop(IF j \in short THEN modesFreeClient(t, j) ELSE t,
                  service, short, j + 1, Append(writes, j))
    ELSE SendLoop(t, service, short, j + 1, writes)

\* the table the loop leaves
SendFrom(t, service, short, j) == SendLoop(t, service, short, j, << >>).t

\* modesSendAllClients without the test of what write() returned
modesSendAllClients_NoFree(t, service, short) == t

modesSendAllClients(t, service, short) == SendFrom(t, service, short, 0)

SendIf(t, sent, service, short) ==
    IF sent THEN modesSendAllClients(t, service, short) ELSE t

\* the three senders of useModesMessage in its order: modesSendSBSOutput,
\* modesSendTrajectoryOutput, modesSendRawOutput
FanOut(t, out, short) ==
    SendIf(SendIf(SendIf(t, out.sbs, "sbs", short), out.trj, "trs", short),
           out.raw # << >>, "rawo", short)

\* strstr(s, sep): the place of the first occurrence counted from 1, 0 for
\* NULL
Occurrences(s, sep) ==
    { i \in 1..(Len(s) - Len(sep) + 1) : SubSeq(s, i, i + Len(sep) - 1) = sep }

Least(S) == IF S = {} THEN 0 ELSE CHOOSE j \in S : \A k \in S : j <= k

strstr(s, sep) == Least(Occurrences(s, sep))

\* strchr(s + from, ' '), counted from 1 in s, 0 for NULL
strchr(s, from) == Least({ i \in (from + 1)..Len(s) : s[i] = " " })

StrCRLF ==
    << "\r", "\n" >>

\* "HTTP/1.1" (line 1938)
StrHttp11 ==
    << "H", "T", "T", "P", "/", "1", ".", "1" >>

\* "Connection: keep-alive" (line 1941)
StrKeepAlive ==
    << "C", "o", "n", "n", "e", "c", "t", "i", "o", "n", ":", " ", "k", "e",
       "e", "p", "-", "a", "l", "i", "v", "e" >>

\* "Connection: close" (line 1944)
StrClose ==
    << "C", "o", "n", "n", "e", "c", "t", "i", "o", "n", ":", " ", "c", "l",
       "o", "s", "e" >>

\* "/data.json" (line 1963)
StrDataJson ==
    << "/", "d", "a", "t", "a", ".", "j", "s", "o", "n" >>

StrGetRoot10 ==
    << "G", "E", "T", " ", "/", " ", "H", "T", "T", "P", "/", "1", ".", "0" >>

StrGetRoot11 ==
    << "G", "E", "T", " ", "/", " ", "H", "T", "T", "P", "/", "1", ".", "1" >>

StrGetJson11 ==
    << "G", "E", "T", " ", "/", "d", "a", "t", "a", ".", "j", "s", "o", "n",
       " ", "H", "T", "T", "P", "/", "1", ".", "1" >>

StrGetNoVersion ==
    << "G", "E", "T", " ", "/" >>

StrNoSpace ==
    << "G", "E", "T" >>

\* handleHTTPRequest on the request in c->buf; short tells that one of the
\* two write() calls returns less than asked.  ret is what it returns,
\* counted whether it incremented stat_http_requests.
Replied(keepalive, sp1, sp2, json, short) ==
    IF sp1 = 0 \/ sp2 = 0
    THEN [ret |-> 1, parsed |-> FALSE, keepalive |-> keepalive, json |-> FALSE,
          counted |-> FALSE]
    ELSE IF short
    THEN [ret |-> 1, parsed |-> TRUE, keepalive |-> keepalive, json |-> json,
          counted |-> FALSE]
    ELSE [ret |-> IF keepalive THEN 0 ELSE 1, parsed |-> TRUE,
          keepalive |-> keepalive, json |-> json, counted |-> TRUE]

UrlEnd(buf, sp1) == IF sp1 = 0 THEN 0 ELSE strchr(buf, sp1)

UrlOf(buf, sp1, sp2) == IF sp2 = 0 THEN << >> ELSE SubSeq(buf, sp1 + 1, sp2 - 1)

\* handleHTTPRequest giving every request the default of HTTP/1.1
RepliedTo_Http11Default(buf, httpver, sp1, sp2, short) ==
    Replied(strstr(buf, StrClose) = 0,
            sp1, sp2, strstr(UrlOf(buf, sp1, sp2), StrDataJson) # 0, short)

RepliedTo(buf, httpver, sp1, sp2, short) ==
    Replied(IF httpver = 10
            THEN strstr(buf, StrKeepAlive) # 0
            ELSE strstr(buf, StrClose) = 0,
            sp1, sp2, strstr(UrlOf(buf, sp1, sp2), StrDataJson) # 0, short)

RequestLine(buf, httpver, sp1, short) ==
    RepliedTo(buf, httpver, sp1, UrlEnd(buf, sp1), short)

handleHTTPRequest(buf, short) ==
    RequestLine(buf, IF strstr(buf, StrHttp11) # 0 THEN 11 ELSE 10,
                strchr(buf, 0), short)

\* decodeHexMessage returns 0 whatever the line is
HexMessageTaken ==
    [ret |-> 0, parsed |-> TRUE, keepalive |-> TRUE, json |-> FALSE,
     counted |-> FALSE]

\* what read() may return: the count, errno, and the bytes it stored
ReadEof == [nread |-> 0, errno |-> "", data |-> << >>]
ReadAgain == [nread |-> -1, errno |-> "EAGAIN", data |-> << >>]
ReadReset == [nread |-> -1, errno |-> "ECONNRESET", data |-> << >>]
ReadData(d) == [nread |-> Len(d), errno |-> "", data |-> d]

\* modesReadFromClient(c, sep, handler) on the outcomes reads of its read()
\* calls.  s is [buf, fullmsg, handled, replies, freed, overflows, k, state]:
\* the buffer, the messages handed to the handler and what it returned for
\* each, whether modesFreeClient was called, how often the full buffer was
\* discarded, the reads consumed, and "reading" while the loop goes on,
\* "served" when it has returned, "invalid" when read() is said to return
\* more than it was asked for.  The shortAt-th message handled is the one
\* whose response is written short.
RECURSIVE ReadLoop(_, _, _, _, _)
RECURSIVE Messages(_, _, _, _)

\* after the handler returned h for the message before place p
Handled(s, sep, service, shortAt, p, h) ==
    IF h.ret # 0
    THEN [s EXCEPT !.handled = Append(@, SubSeq(s.buf, 1, p - 1)),
                   !.replies = Append(@, h), !.freed = TRUE]
    ELSE Messages([s EXCEPT !.buf = SubSeq(@, p + Len(sep), Len(@)),
                            !.handled = Append(@, SubSeq(s.buf, 1, p - 1)),
                            !.replies = Append(@, h), !.fullmsg = TRUE],
                  sep, service, shortAt)

MessageAt(s, sep, service, shortAt, p) ==
    IF p = 0 THEN s
    ELSE Handled(s, sep, service, shortAt, p,
                 IF service = "http"
                 THEN handleHTTPRequest(SubSeq(s.buf, 1, p - 1),
                                        Len(s.handled) + 1 = shortAt)
                 ELSE HexMessageTaken)

\* while ((p = strstr(c->buf, sep)) != NULL)
Messages(s, sep, service, shortAt) ==
    MessageAt(s, sep, service, shortAt, strstr(s.buf, sep))

\* modesReadFromClient freeing the client whose buffer is full
AfterMessages_FreeOnFull(m, sep, service, shortAt, reads) ==
    IF m.freed \/ Len(m.buf) = MODES_CLIENT_BUF_SIZE
    THEN [m EXCEPT !.state = "served", !.freed = TRUE]
    ELSE IF ~m.fullmsg THEN [m EXCEPT !.state = "served"]
    ELSE ReadLoop(m, sep, service, shortAt, reads)

\* modesReadFromClient leaving the full buffer as it is
AfterMessages_KeepFull(m, sep, service, shortAt, reads) ==
    IF m.freed THEN [m EXCEPT !.state = "served"]
    ELSE IF ~m.fullmsg THEN [m EXCEPT !.state = "served"]
    ELSE ReadLoop(m, sep, service, shortAt, reads)

\* lines 2072-2082, m being the state the inner loop left
AfterMessages(m, sep, service, shortAt, reads) ==
    IF m.freed THEN [m EXCEPT !.state = "served"]
    ELSE IF Len(m.buf) = MODES_CLIENT_BUF_SIZE
    THEN ReadLoop([m EXCEPT !.buf = << >>, !.overflows = @ + 1],
                  sep, service, shortAt, reads)
    ELSE IF ~m.fullmsg THEN [m EXCEPT !.state = "served"]
    ELSE ReadLoop(m, sep, service, shortAt, reads)

Received(s, r, sep, service, shortAt, reads) ==
    IF r.nread <= 0
    THEN [s EXCEPT !.k = @ + 1, !.state = "served",
                   !.freed = (r.nread = 0 \/ r.errno # "EAGAIN")]
    ELSE IF r.nread > MODES_CLIENT_BUF_SIZE - Len(s.buf)
    THEN [s EXCEPT !.state = "invalid"]
    ELSE AfterMessages(Messages([s EXCEPT !.buf = @ \o r.data, !.k = @ + 1,
                                          !.fullmsg = FALSE],
                                sep, service, shortAt),
                       sep, service, shortAt, reads)

ReadLoop(s, sep, service, shortAt, reads) ==
    IF s.k = Len(reads) THEN s
    ELSE Received(s, reads[s.k + 1], sep, service, shortAt, reads)

\* the separator modesReadFromClients passes for the service
Separator(service) == IF service = "http" THEN StrCRLF \o StrCRLF ELSE << "\n" >>

\* modesReadFromClient reading to the start of the buffer whatever it holds
modesReadFromClient_DropResidue(c, shortAt, reads) ==
    ReadLoop([buf |-> << >>, fullmsg |-> FALSE, handled |-> << >>,
              replies |-> << >>, freed |-> FALSE, overflows |-> 0, k |-> 0,
              state |-> "reading"],
             Separator(c.service), c.service, shortAt, reads)

\* lines 2029-2083
modesReadFromClient(c, shortAt, reads) ==
    ReadLoop([buf |-> c.buf, fullmsg |-> FALSE, handled |-> << >>,
              replies |-> << >>, freed |-> FALSE, overflows |-> 0, k |-> 0,
              state |-> "reading"],
             Separator(c.service), c.service, shortAt, reads)

\* the table after modesReadFromClient on the client at fd left s
AfterRead(t, fd, s) ==
    IF s.freed THEN modesFreeClient(t, fd)
    ELSE [t EXCEPT !.tab[fd].buf = s.buf, !.tab[fd].buflen = Len(s.buf)]

\* HTTP requests counted in one behaviour
MaxRequests == 2
\* calls of backgroundTasks and of useModesMessage in one behaviour with
\* clients
MaxCalls == 3

\* the descriptors accept() hands out: two below MODES_NET_MAX_FD and one
\* that is not
Descriptors == { 7, 8, MODES_NET_MAX_FD }

\* bytes no separator and no request is part of
Junk(n) == [i \in 1..n |-> "x"]

LineA == HexLine(FrameDF11A) \o << "\n" >>
LineB == HexLine(FrameDF17) \o << "\n" >>

\* what a raw input client sends: a line, two lines, a line in two pieces,
\* and bytes without a new line
RawChunks ==
    { LineA, LineA \o LineB, SubSeq(LineA, 1, 6), SubSeq(LineA, 7, Len(LineA)),
      Junk(MODES_CLIENT_BUF_SIZE \div 2) }

Request(line, header) ==
    line \o (IF header = << >> THEN << >> ELSE StrCRLF \o header)
         \o StrCRLF \o StrCRLF

\* what an HTTP client sends: requests of both versions with and without a
\* Connection header, two requests at once, a request line that is cut
\* short, and bytes without an empty line
HttpChunks ==
    { Request(StrGetRoot10, << >>), Request(StrGetRoot10, StrKeepAlive),
      Request(StrGetJson11, << >>), Request(StrGetRoot11, StrClose),
      Request(StrGetJson11, << >>) \o Request(StrGetRoot10, << >>),
      Request(StrGetNoVersion, << >>), Request(StrNoSpace, << >>),
      Junk(MODES_CLIENT_BUF_SIZE \div 2) }

ChunksOf(service) == IF service = "http" THEN HttpChunks ELSE RawChunks

ReadEnds == { ReadEof, ReadAgain, ReadReset }

\* the outcomes of the read() calls of one modesReadFromClient: data, then
\* possibly more data or an end; three calls only after half a buffer of
\* bytes without a separator
ReadSeqs(service) ==
    LET data == { ReadData(d) : d \in ChunksOf(service) }
        junk == ReadData(Junk(MODES_CLIENT_BUF_SIZE \div 2))
    IN { << r >> : r \in data \cup ReadEnds }
       \cup { << d, r >> : d \in data, r \in ReadEnds }
       \cup { << junk, d, ReadAgain >> : d \in data }

Table == [tab |-> clients, maxfd |-> maxfd]

\* Modes.clients and Modes.maxfd become those of t, and io records the call
\* and counts it
Served(op, fd, service, reads, shortAt, short, s, t) ==
    /\ clients' = t.tab
    /\ maxfd' = t.maxfd
    /\ io' = [op |-> op, fd |-> fd, service |-> service, reads |-> reads,
              shortAt |-> shortAt, short |-> short, handled |-> s.handled,
              replies |-> s.replies, overflows |-> s.overflows,
              before |-> clients, beforefd |-> maxfd, calls |-> io.calls + 1]

\* backgroundTasks while a connection waits on the listening socket of
\* service and accept() returns fd for it
AcceptOne(service, fd) ==
    /\ cfg.net
    /\ io.calls < MaxCalls
    /\ fd \notin DOMAIN clients
    /\ service = "sbs" => stat_sbs_connections < MaxClients
    /\ service = "trs" => stat_trajectory_connections < MaxClients
    /\ Served("accept", fd, service, << >>, 0, {}, NoCall,
              IF fd >= MODES_NET_MAX_FD THEN Table
              ELSE [tab |-> clients @@ (fd :> [service |-> service, fd |-> fd,
                                               buflen |-> 0, buf |-> << >>]),
                    maxfd |-> IF maxfd < fd THEN fd ELSE maxfd])
    /\ stat_sbs_connections' =
           IF fd < MODES_NET_MAX_FD /\ service = "sbs"
           THEN stat_sbs_connections + 1 ELSE stat_sbs_connections
    /\ stat_trajectory_connections' =
           IF fd < MODES_NET_MAX_FD /\ service = "trs"
           THEN stat_trajectory_connections + 1 ELSE stat_trajectory_connections
    /\ aircrafts' = interactiveRemoveStaleAircrafts(aircrafts, tsec,
                                                     MODES_INTERACTIVE_TTL)
    /\ UNCHANGED << now, cfg, icao_cache, stat_decoded_msg, stat_http_requests,
                    stackmsg, last, nframes, inserted, heard, probe >>
    /\ UNCHANGED ingest

\* how many of the replies incremented stat_http_requests
Counted(replies) == Cardinality({ i \in DOMAIN replies : replies[i].counted })

\* backgroundTasks while the HTTP client at fd has something to read
ReadHttp(fd, reads, shortAt) ==
    /\ cfg.net
    /\ io.calls < MaxCalls
    /\ fd \in DOMAIN clients
    /\ clients[fd].service = "http"
    /\ \E s \in { modesReadFromClient(clients[fd], shortAt, reads) } :
          /\ s.state = "served"
          /\ s.k = Len(reads)
          /\ shortAt <= Len(s.handled)
          /\ stat_http_requests + Counted(s.replies) <= MaxRequests
          /\ stat_http_requests' = stat_http_requests + Counted(s.replies)
          /\ Served("read", fd, "http", reads, shortAt, {}, s,
                    AfterRead(Table, fd, s))
    /\ aircrafts' = interactiveRemoveStaleAircrafts(aircrafts, tsec,
                                                     MODES_INTERACTIVE_TTL)
    /\ UNCHANGED << now, cfg, icao_cache, stat_decoded_msg, stat_sbs_connections,
                    stat_trajectory_connections, stackmsg, last, nframes, inserted,
                    heard, probe >>
    /\ UNCHANGED ingest

\* decodeHexMessage on the lines from the k-th on.  st is [cache, list,
\* before, stackmsg, mm, idx, out, t]: the recency cache, Modes.aircrafts now
\* and before the last line, the msg[] buffer, the last message, the place of
\* its aircraft, what went to the sinks, and the client table.  stack tells
\* that msg[] starts with what the previous call left in it, zeroes otherwise.
AfterUse(st, msg, d, u, short) ==
    [cache |-> d.cache, list |-> u.list, before |-> st.list, stackmsg |-> msg,
     mm |-> d.mm, idx |-> u.idx, out |-> u.out, t |-> FanOut(st.t, u.out, short)]

AfterDecode(st, msg, d, short) ==
    AfterUse(st, msg, d,
             useModesMessage(d.mm, st.list, tsec, now, cfg, stat_http_requests,
                             stat_sbs_connections, stat_trajectory_connections),
             short)

AfterHexToBin(st, msg, short) ==
    AfterDecode(st, msg,
                decodeModesMessage(msg, st.cache, tsec, cfg.fix_errors,
                                   cfg.aggressive),
                short)

RECURSIVE decodeHexMessages(_, _, _, _, _)
decodeHexMessages(st, lines, k, stack, short) ==
    IF k > Len(lines) THEN st
    ELSE decodeHexMessages(
             AfterHexToBin(st, hexToBin(lines[k],
                                        IF stack THEN st.stackmsg ELSE ZeroMsg),
                           short),
             lines, k + 1, stack, short)

\* the clients of the three output services
Listeners == { f \in DOMAIN clients : clients[f].service \in { "rawo", "sbs", "trs" } }

\* backgroundTasks while the raw input client at fd has something to read
ReadRaw(fd, reads, stack) ==
    /\ cfg.net
    /\ io.calls < MaxCalls
    /\ fd \in DOMAIN clients
    /\ clients[fd].service = "rawi"
    /\ \E s \in { modesReadFromClient(clients[fd], 0, reads) } :
          /\ s.state = "served"
          /\ s.k = Len(reads)
          /\ nframes + Len(s.handled) <= MaxFrames
          /\ s.handled = << >> => ~stack
          /\ \E short \in IF s.handled = << >> THEN { {} } ELSE SUBSET Listeners :
             \E st \in { decodeHexMessages(
                            [cache |-> icao_cache, list |-> aircrafts,
                             before |-> aircrafts, stackmsg |-> stackmsg,
                             mm |-> last.mm, idx |-> last.idx, out |-> last.out,
                             t |-> AfterRead(Table, fd, s)],
                            s.handled, 1, stack, short) } :
                /\ icao_cache' = st.cache
                /\ aircrafts' = interactiveRemoveStaleAircrafts(
                                    st.list, tsec, MODES_INTERACTIVE_TTL)
                /\ stackmsg' = st.stackmsg
                /\ last' = IF s.handled = << >> THEN last
                           ELSE [op |-> "rawin",
                                 line |-> s.handled[Len(s.handled)],
                                 mm |-> st.mm, idx |-> st.idx, out |-> st.out,
                                 before |-> st.before]
                /\ nframes' = nframes + Len(s.handled)
                /\ Served("read", fd, "rawi", reads, 0, short, s, st.t)
    /\ UNCHANGED << now, cfg, stat_decoded_msg, stat_http_requests,
                    stat_sbs_connections, stat_trajectory_connections, inserted,
                    heard, probe >>
    /\ UNCHANGED ingest

\* One iteration of main's loop on a line of the input while clients are
\* connected: short holds the descriptors whose write() comes back short.
SendLine(line, garbage) ==
    /\ cfg.net
    /\ io.calls < MaxCalls
    /\ nframes < MaxFrames
    /\ ProcessLine("main", line, hexToBin(line, garbage), TRUE)
    /\ stat_decoded_msg' = stat_decoded_msg + 1
    /\ \E short \in SUBSET Listeners :
          Served("send", -1, "", << >>, 0, short, NoCall,
                 FanOut(Table, last'.out, short))
    /\ UNCHANGED << now, cfg, stat_http_requests, stat_sbs_connections,
                    stat_trajectory_connections, inserted, heard, probe >>
    /\ UNCHANGED ingest

NetNext ==
    \/ \E service \in Services, fd \in Descriptors : AcceptOne(service, fd)
    \/ \E fd \in Descriptors, shortAt \in 0..2 :
           \E reads \in ReadSeqs("http") : ReadHttp(fd, reads, shortAt)
    \/ \E fd \in Descriptors, stack \in BOOLEAN :
           \E reads \in ReadSeqs("rawi") : ReadRaw(fd, reads, stack)
    \/ \E line \in { HexLine(FrameDF11A), HexLine(FrameDF17) } :
           SendLine(line, ZeroMsg)

\* the default options with --net
NetInit == Init /\ cfg.net /\ cfg.check_crc /\ ~cfg.interactive

NetSpec == NetInit /\ [][NetNext]_vars

(***************************************************************************)
(* The fields of one frame: main reads one line of every downlink format   *)
(* and flight status, hexToBin fills the buffer, decodeModesMessage takes   *)
(* the fields and useModesMessage hands the message to the tracker and to   *)
(* the BaseStation clients.                                                 *)
(***************************************************************************)
\* bytes 2 and 3 of a frame that hold the squawks 7500, 7600, 7700 and 1200,
\* and 7700 again with the bit between A4 and B1 set
Squawks == { << 10, 162 >>, << 10, 138 >>, << 10, 170 >>, << 8, 8 >>,
             << 10, 234 >> }

FieldTail == << 88, 153, 16, 42, 51, 7, 201, 96, 113, 5 >>

\* a frame of 7 or of 14 bytes for every value of the first byte
FieldFrames ==
    UNION { { << first, 72, sq[1], sq[2] >> \o SubSeq(FieldTail, 1, 3),
              << first, 72, sq[1], sq[2] >> \o FieldTail }
            : first \in 0..255, sq \in Squawks }

\* the surveillance identity replies (DF5) with every value of the 13 bits
\* of the identity field
IdentityFrames ==
    { << 40, 0, b2, b3, 0, 0, 0 >> : b2 \in 0..31, b3 \in 0..255 }

\* the first line of the input
FieldLine(f) ==
    /\ nframes = 0
    /\ MainLoop(HexLine(f), ZeroMsg, FALSE)

\* a BaseStation client connects before the first line
FieldAccept ==
    /\ nframes = 0
    /\ stat_sbs_connections = 0
    /\ AcceptClient("sbs")

FieldNext ==
    \/ \E f \in FieldFrames \cup IdentityFrames : FieldLine(f)
    \/ FieldAccept

FieldInit == Init /\ ~cfg.check_crc

FieldSpec == FieldInit /\ [][FieldNext]_vars

(***************************************************************************)
(* The CPR resolver on the positions of one aircraft: an airborne position *)
(* message of either parity arrives, up to a second passes, and a second   *)
(* one arrives; interactiveReceiveData stores the raw coordinates and      *)
(* calls decodeCPR when the two capture times are close enough.            *)
(***************************************************************************)
\* 17-bit raw latitudes and longitudes: the ends of the range, its middle,
\* and the values of recorded frames
CprLats == { 0, 1, 65535, 65536, 74158, 93000, 131071 }
CprLons == { 0, 1, 50194, 51372, 65536, 65537, 131071 }

\* the position message of 4840D6 with other raw coordinates
CprMessage(fflag, lat, lon) ==
    [decodeModesMessage(Buffer(FramePosEven), << >>, 0, FALSE, FALSE).mm
        EXCEPT !.fflag = fflag, !.raw_latitude = lat, !.raw_longitude = lon]

CprIngest(fflag, lat, lon) ==
    /\ nframes < 2
    /\ TrackIngest(CprMessage(fflag, lat, lon))

CprTick ==
    /\ nframes = 1
    /\ Tick(BootMs + 1000)

CprNext ==
    \/ \E fflag \in 0..1, lat \in CprLats, lon \in CprLons :
          CprIngest(fflag, lat, lon)
    \/ CprTick

CprInit == Init /\ cfg.interactive

CprSpec == CprInit /\ [][CprNext]_vars

(***************************************************************************)
(* The velocity of an extended squitter: airborne velocity messages of     *)
(* subtypes 1 and 2 are decoded.                                           *)
(***************************************************************************)
\* the magnitudes of the two components: small ones, those of a usual ground
\* speed, and the greatest of the 10 bits
VelMagnitudes == { 0, 1, 2, 3, 4, 9, 160, 724, 1023 }

\* the frame with the CRC of its first 11 bytes in the last three
Sealed(msg) ==
    LET WithCrc(crc) == [msg EXCEPT ![12] = crc \div 65536,
                                    ![13] = (crc \div 256) % 256,
                                    ![14] = crc % 256]
    IN WithCrc(modesChecksum(msg, MODES_LONG_MSG_BITS))

\* DF17 of 4840D6, ME type 19 of subtype sub, with the directions and
\* magnitudes given and a vertical rate of 14
VelFrame(sub, ew_dir, ew, ns_dir, ns) ==
    Sealed(<< 141, 72, 64, 214, 19 * 8 + sub, ew_dir * 4 + (ew \div 256), ew % 256,
              ns_dir * 128 + (ns \div 8), (ns % 8) * 32, 14 * 4, 0, 0, 0, 0 >>)

DecodeVelocity(sub, ew_dir, ew, ns_dir, ns) ==
    /\ nframes = 0
    /\ probe' = [frame |-> VelFrame(sub, ew_dir, ew, ns_dir, ns), bits |-> {}]
    /\ DecodeBuffer(VelFrame(sub, ew_dir, ew, ns_dir, ns))

VelocityNext ==
    \E sub \in 1..2, ew_dir, ns_dir \in 0..1, ew, ns \in VelMagnitudes :
        DecodeVelocity(sub, ew_dir, ew, ns_dir, ns)

VelocitySpec == Init /\ [][VelocityNext]_vars

(***************************************************************************)
(* The tracker on messages of every kind it tells apart.                   *)
(***************************************************************************)
\* DF0 and DF20 replies with the altitude field of FrameDF4A
FrameDF0 == << 2, 0, 5, 176, 248, 58, 161 >>
FrameDF20 == << 160, 0, 5, 176, 1, 2, 3, 4, 5, 6, 7, 248, 58, 161 >>

\* The messages handed over: altitude replies of three formats, an
\* identification, an even and an odd position, a velocity and an all-call
\* reply of 4840D6, and an all-call reply of another aircraft.
UpdateMsgs ==
    { decodeModesMessage(Buffer(f), << >>, 0, FALSE, FALSE).mm :
        f \in { FrameDF0, FrameDF4A, FrameDF20, FrameDF17, FramePosEven,
                FramePosOdd, VelFrame(1, 0, 9, 0, 160), FrameDF11A, FrameDF11B } }

\* messages handed to the tracker in one behaviour of UpdateSpec
MaxUpdateMsgs == 3

UpdateIngest(mm) ==
    /\ nframes < MaxUpdateMsgs
    /\ Tracked(mm, interactiveReceiveData(mm, aircrafts, tsec, now, cfg.check_crc))

UpdateTick ==
    /\ nframes = 1
    /\ Tick(BootMs + 1000)

UpdateNext ==
    \/ \E mm \in UpdateMsgs : UpdateIngest(mm)
    \/ UpdateTick

UpdateSpec == Init /\ [][UpdateNext]_vars

(***************************************************************************)
(* The position sinks: position reports are used while an SBS and a        *)
(* trajectory client are attached.                                         *)
(***************************************************************************)
\* aircraftsToJson lists the aircraft whose two coordinates are not 0
JsonLists(a) == a.lat.n # 0 /\ a.lon.n # 0

\* position reports of 4840D6 on and off the equator and the prime meridian
PosSinkMsgs ==
    { CprMessage(fflag, lat, lon) :
        fflag \in 0..1, lat \in { 0, 65536, 74158 }, lon \in { 0, 51372 } }

PosSinkNext ==
    \/ \E mm \in PosSinkMsgs : UseMessage(mm)
    \/ \E service \in {"sbs", "trs"} : AcceptClient(service)

PosSinkSpec == Init /\ [][PosSinkNext]_vars

(***************************************************************************)
(* Properties of the frame pipeline.                                       *)
(***************************************************************************)
\* the step takes a line (from the file or from a raw input client)
TakesLine == nframes' # nframes

\* the 24-bit address a frame carries in bytes 1..3
AddressOf(msg) == msg[2] * 65536 + msg[3] * 256 + msg[4]

\* what the step's frame is once the line is in the buffer
FrameBits == modesMessageLenByType(stackmsg'[1] \div 8)

\* C1: a malformed line is discarded on both paths: the recency cache, the
\* aircraft table and the decoded-message counter are left as they were and
\* nothing goes to a sink.
C1_MalformedLineDiscarded ==
    [][ (TakesLine /\ ~WellFormedLine(last'.line))
        => /\ icao_cache' = icao_cache
           /\ aircrafts' = aircrafts
           /\ stat_decoded_msg' = stat_decoded_msg
           /\ last'.out = NoOutput ]_vars

\* C2: the recency cache is written only by a step that takes a DF11 or DF17
\* frame whose carried CRC equals the computed one with no bit corrected,
\* and what it writes is that frame's address.
C2_CacheWrittenOnlyByValidFrames ==
    [][ icao_cache' # icao_cache
        => /\ TakesLine
           /\ last'.mm.msgtype \in {11, 17}
           /\ last'.mm.errorbit = -1
           /\ last'.mm.msg = stackmsg'
           /\ TrailingCrc(stackmsg', FrameBits) = modesChecksum(stackmsg', FrameBits)
           /\ icao_cache' = addRecentlySeenICAOAddr(icao_cache, AddressOf(stackmsg'),
                                                    tsec) ]_vars

\* a repaired frame has been accepted and the cache, written before, does not
\* hold its address
C2_Witness ==
    /\ last.mm.msgtype = 17
    /\ last.mm.crcok
    /\ last.mm.errorbit # -1
    /\ DOMAIN icao_cache # {}
    /\ \A h \in DOMAIN icao_cache : icao_cache[h].addr # AddressOf(last.mm.msg)

\* the recency lookup as specified: the slot holds the address and its
\* timestamp is at most 60 seconds old
InCacheAndFresh(cache, addr, t) ==
    /\ ICAOCacheHashAddress(addr) \in DOMAIN cache
    /\ cache[ICAOCacheHashAddress(addr)].addr = addr
    /\ t - cache[ICAOCacheHashAddress(addr)].t <= MODES_ICAO_CACHE_TTL

\* C3: for a frame with an address/parity field, crcok is set exactly when
\* the candidate address is in the recency cache and fresh; then aa1..aa3 is
\* the candidate; the cache is not modified.
C3_APRecoveryIffCachedAndFresh ==
    [][ (TakesLine /\ WellFormedLine(last'.line) /\ last'.mm.msgtype \in APTypes)
        => /\ last'.mm.crcok
              <=> InCacheAndFresh(icao_cache,
                                  APAddress(stackmsg', FrameBits).addr, tsec)
           /\ last'.mm.crcok
              => AddressOf(<< 0, last'.mm.aa1, last'.mm.aa2, last'.mm.aa3 >>)
                 = APAddress(stackmsg', FrameBits).addr
           /\ icao_cache' = icao_cache ]_vars

\* C4: an address inserted at most 60 seconds ago, and not overwritten by a
\* colliding insert since, is reported as recently seen; 000000 included.
C4_InsertedIsRecentlySeen ==
    \A a \in DOMAIN inserted :
        tsec - inserted[a] <= MODES_ICAO_CACHE_TTL
        => ICAOAddressWasRecentlySeen(icao_cache, a, tsec)

(***************************************************************************)
(* Properties of useModesMessage and of the tracker.                       *)
(***************************************************************************)
\* C5: with check_crc on, a message whose crcok is false is dropped: no
\* aircraft is created or updated, and nothing is printed or sent to the raw,
\* SBS or trajectory clients.
C5_BadCrcDropped ==
    [][ (nframes' # nframes /\ last'.op = "use" /\ cfg.check_crc /\ ~last'.mm.crcok)
        => /\ aircrafts' = aircrafts
           /\ last'.idx = 0
           /\ last'.out = NoOutput ]_vars

\* a message with a bad CRC has come while an aircraft is tracked and an SBS
\* client and a raw output port are there to be fed
C5_Witness ==
    /\ last.op = "use"
    /\ cfg.check_crc /\ ~cfg.stats /\ cfg.net
    /\ ~last.mm.crcok
    /\ stat_sbs_connections > 0
    /\ Len(aircrafts) > 0

\* C6: the table holds exactly one aircraft for each address that had a
\* message admitted and has not been aged out since, and no address twice.
C6_OneAircraftPerAddress ==
    /\ { aircrafts[i].addr : i \in 1..Len(aircrafts) } = DOMAIN heard
    /\ \A i, k \in 1..Len(aircrafts) : i # k => aircrafts[i].addr # aircrafts[k].addr

\* a second message has come for an aircraft that is not at the head of a
\* table of three, after a stale aircraft was removed
C6_Witness ==
    /\ last.op = "track"
    /\ Len(aircrafts) = 3
    /\ last.idx = 3
    /\ aircrafts[3].messages >= 2
    /\ now > BootMs + MODES_INTERACTIVE_TTL * 1000

IsFresh(a) == tsec - a.seen <= MODES_INTERACTIVE_TTL

\* C7: the removal of stale aircraft leaves exactly the aircraft seen at most
\* ttl seconds ago, each as it was and in the order they were in.
C7_AgeOutRemovesExactlyStale ==
    [][ (last'.op = "age" /\ now' = now /\ nframes' = nframes)
        => aircrafts' = SelectSeq(aircrafts, IsFresh) ]_vars

\* of three aircraft the middle one alone was stale and has been removed
C7_Witness ==
    /\ last.op = "age"
    /\ Len(last.before) = 3
    /\ aircrafts = << last.before[1], last.before[3] >>

\* rlat0 (odd = 0) or rlat1 (odd = 1) of the resolver as specified, from the
\* even and the odd raw latitude
SpecRlat(lat_even, lat_odd, odd) ==
    LET j == (2 * (59 * lat_even - 60 * lat_odd) + CPR_SCALE) \div (2 * CPR_SCALE)
        r == IF odd = 0
             THEN [n |-> (j % 60) * CPR_SCALE + lat_even, z |-> 60]
             ELSE [n |-> (j % 59) * CPR_SCALE + lat_odd, z |-> 59]
    IN IF 4 * r.n >= 3 * r.z * CPR_SCALE
       THEN [n |-> r.n - r.z * CPR_SCALE, z |-> r.z] ELSE r

\* both reports received, at most 10,000 ms apart, and NL agreeing
Resolvable(h) ==
    /\ h.odd # << >> /\ h.even # << >>
    /\ Abs(h.even[1].at - h.odd[1].at) <= 10000
    /\ cprNLFunction(SpecRlat(h.even[1].lat, h.odd[1].lat, 0))
       = cprNLFunction(SpecRlat(h.even[1].lat, h.odd[1].lat, 1))

\* latitude and longitude of the aircraft with this address, 0 if none
PositionOf(list, addr) ==
    IF interactiveFindAircraft(list, addr) = 0 THEN << DegZero, DegZero >>
    ELSE << list[interactiveFindAircraft(list, addr)].lat,
            list[interactiveFindAircraft(list, addr)].lon >>

\* C8: an admitted airborne position message gives the aircraft the position
\* resolved from its two reports when both have been received, were captured
\* at most 10,000 ms apart and NL(rlat_even) = NL(rlat_odd); in every other
\* case latitude and longitude stay as they were.
C8_PositionResolvedIffPairUsable ==
    [][ (nframes' # nframes /\ last'.op = "track" /\ IsPosition(last'.mm)
         /\ last'.idx # 0)
        => LET addr == aircrafts'[last'.idx].addr
               h == heard'[addr]
               after == aircrafts'[last'.idx]
           IN IF Resolvable(h)
              THEN /\ after.lat = SpecRlat(h.even[1].lat, h.odd[1].lat,
                                           IF h.even[1].at > h.odd[1].at THEN 0 ELSE 1)
                   /\ after.lon = decodeCPR(after).lon
              ELSE << after.lat, after.lon >> = PositionOf(aircrafts, addr) ]_vars

\* the second report of a pair has come and the position is resolved
C8_Witness ==
    /\ last.op = "track"
    /\ IsPosition(last.mm)
    /\ last.idx # 0
    /\ PositionOf(last.before, aircrafts[last.idx].addr) = << DegZero, DegZero >>
    /\ aircrafts[last.idx].lat # DegZero
    /\ aircrafts[last.idx].lon # DegZero

(***************************************************************************)
(* Properties of the hand-over of lines.                                   *)
(***************************************************************************)
\* the newline-terminated lines of a file, in order
RECURSIVE LinesOfFile(_)
LinesOfFile(f) ==
    IF \E i \in 1..Len(f) : f[i] = "\n"
    THEN << CString([i \in 1..Len(f) |-> IF f[i] = "\n" THEN NUL ELSE f[i]]) >>
         \o LinesOfFile(SubSeq(f,
                Len(CString([i \in 1..Len(f) |-> IF f[i] = "\n" THEN NUL ELSE f[i]])) + 2,
                Len(f)))
    ELSE << >>

\* C9: with a file input the lines main hands to the decoder are the
\* newline-terminated lines of the file, each once and in order; after the
\* end of the file no further line is decoded, and the count of decoded
\* messages at exit is the number of lines.
C9_DecodedLinesAreFileLines ==
    /\ Len(decoded) <= Len(LinesOfFile(file))
    /\ decoded = SubSeq(LinesOfFile(file), 1, Len(decoded))
    /\ mpc = "done" => /\ decoded = LinesOfFile(file)
                       /\ stat_decoded_msg = Len(LinesOfFile(file))

\* C10: with a file input and both threads scheduled fairly, main eventually
\* sees the exit flag while it holds the mutex and leaves its loop.
C10_MainLeavesLoop == <>(mpc = "done" /\ data_mutex = "main" /\ input.exit = 1)

\* main has left the loop on a file whose last line has no newline
C10_Witness ==
    /\ mpc = "done"
    /\ file # << >>
    /\ file[Len(file)] # "\n"
    /\ input.fpos = Len(file)

(***************************************************************************)
(* Properties of the repair of corrupted frames.                           *)
(***************************************************************************)
\* the message was decoded from probe.frame with n bits flipped
Flipped(n) == last.op = "decode" /\ Cardinality(probe.bits) = n

\* the decoded message holds the bytes of probe.frame again, and their CRC
\* is the one in the last three bytes
Restored ==
    /\ last.mm.msg = probe.frame
    /\ last.mm.crcok
    /\ last.mm.crc = TrailingCrc(probe.frame, last.mm.msgbits)
    /\ modesChecksum(last.mm.msg, last.mm.msgbits)
       = TrailingCrc(last.mm.msg, last.mm.msgbits)

\* C11: a valid DF11 or DF17 frame with one bit k after the DF field flipped
\* is repaired: the bytes are the original ones again, their CRC is the one
\* stored in the last three bytes, crcok is true and errorbit is k.
C11_SingleBitRepaired ==
    (Flipped(1) /\ cfg.fix_errors)
        => /\ Restored
           /\ probe.bits = { last.mm.errorbit }

\* the last bit of an extended squitter was flipped and repaired
C11_Witness ==
    /\ Flipped(1)
    /\ cfg.fix_errors
    /\ probe.bits = { MODES_LONG_MSG_BITS - 1 }
    /\ last.mm.msgtype = 17
    /\ last.mm.errorbit = MODES_LONG_MSG_BITS - 1

\* the place of the pair (j, i) in the order fixTwoBitsErrors tries the pairs
TrialsUntil(j, i, bits) == j * (bits - 1) - (j * (j - 1)) \div 2 + (i - j)

\* C12: with --aggressive a valid DF17 frame with two bits j < i after the DF
\* field flipped is repaired: the bytes are the original ones again, crcok is
\* true, errorbit is j | (i << 8), and the pair is found within C(112, 2)
\* trials.
C12_TwoBitsRepaired ==
    (Flipped(2) /\ cfg.fix_errors /\ cfg.aggressive)
        => /\ Restored
           /\ probe.bits = { last.mm.errorbit % 256, last.mm.errorbit \div 256 }
           /\ last.mm.errorbit % 256 < last.mm.errorbit \div 256
           /\ TrialsUntil(last.mm.errorbit % 256, last.mm.errorbit \div 256,
                          MODES_LONG_MSG_BITS)
              <= (MODES_LONG_MSG_BITS * (MODES_LONG_MSG_BITS - 1)) \div 2

\* bits 20 and 111 of an extended squitter were flipped and repaired
C12_Witness ==
    /\ Flipped(2)
    /\ cfg.aggressive
    /\ probe.bits = { 20, 111 }
    /\ last.mm.errorbit = 20 + 111 * 256
    /\ last.mm.msg = InBuffer(FrameDF17)

(***************************************************************************)
(* Properties of the network services.                                     *)
(***************************************************************************)
\* the last call read from a client
ReadCall == io.op = "read"

\* what the last read() of the call returned
LastRead == io.reads[Len(io.reads)]

\* the peer closed the connection or the read failed for good
ReadEnded == LastRead.nread = 0 \/ (LastRead.nread < 0 /\ LastRead.errno # "EAGAIN")

\* the services useModesMessage sent the last message to
SentTo ==
    { service \in Services :
        \/ service = "sbs" /\ last.out.sbs
        \/ service = "trs" /\ last.out.trj
        \/ service = "rawo" /\ last.out.raw # << >> }

\* the clients a write() of the last message came back short on
ShortWritten ==
    { f \in io.short : f \in DOMAIN io.before /\ io.before[f].service \in SentTo }

\* the call sent one message to the sinks
SentOne == io.op = "send" \/ (ReadCall /\ io.service = "rawi" /\ Len(io.handled) = 1)

\* C13: a client is removed from the client table when a write of a message
\* to it comes back short, when a read from it returns 0, and when a read
\* from it fails with an errno other than EAGAIN; when the read fails with
\* EAGAIN the client and its buffer are as they were before the call.
C13_FreedOnIoFailure ==
    /\ SentOne => \A f \in ShortWritten : f \notin DOMAIN clients
    /\ (ReadCall /\ ReadEnded) => io.fd \notin DOMAIN clients
    /\ (ReadCall /\ io.reads = << ReadAgain >>) =>
          /\ io.fd \in DOMAIN clients
          /\ clients[io.fd] = io.before[io.fd]
          /\ clients = io.before

C13_Witness ==
    /\ io.op = "send"
    /\ ShortWritten # {}
    /\ ShortWritten \cap DOMAIN clients = {}
    /\ clients # << >>

\* the bytes the first k reads of the call returned, and those after them
RECURSIVE DataUpTo(_, _)
DataUpTo(reads, k) ==
    IF k = 0 THEN << >> ELSE DataUpTo(reads, k - 1) \o reads[k].data

DataAfter(reads, k) ==
    DataUpTo([i \in 1..(Len(reads) - k) |-> reads[i + k]], Len(reads) - k)

\* the frames a stream of bytes holds: its pieces that end with sep
RECURSIVE SpecFrames(_, _)
SpecFrames(stream, sep) ==
    LET ends == Occurrences(stream, sep)
    IN IF ends = {} THEN << >>
       ELSE << SubSeq(stream, 1, Least(ends) - 1) >>
            \o SpecFrames(SubSeq(stream, Least(ends) + Len(sep), Len(stream)), sep)

\* what follows the last frame of the stream
RECURSIVE SpecResidue(_, _)
SpecResidue(stream, sep) ==
    LET ends == Occurrences(stream, sep)
    IN IF ends = {} THEN stream
       ELSE SpecResidue(SubSeq(stream, Least(ends) + Len(sep), Len(stream)), sep)

\* with the k-th read of the call the buffer of the client held
\* MODES_CLIENT_BUF_SIZE bytes and no separator
OverflowAt(k) ==
    /\ ReadCall
    /\ Len(io.before[io.fd].buf) + Len(DataUpTo(io.reads, k)) = MODES_CLIENT_BUF_SIZE
    /\ Occurrences(io.before[io.fd].buf \o DataUpTo(io.reads, k),
                   Separator(io.service)) = {}

\* no handler asked for the connection to be closed
NoneClosed == \A i \in DOMAIN io.replies : io.replies[i].ret = 0

\* C14: when the buffer of a raw input or HTTP client fills up to 1024 bytes
\* with no separator in it, the buffer is emptied and the client stays in
\* the table: the frames that arrive afterwards are handed to the handler,
\* and the buffer holds just what follows the last of them (nothing when no
\* byte arrived since).
C14_FullBufferDiscarded ==
    \A k \in 1..Len(io.reads) :
        (OverflowAt(k) /\ ~ReadEnded /\ NoneClosed) =>
            /\ io.overflows = 1
            /\ io.fd \in DOMAIN clients
            /\ io.handled = SpecFrames(DataAfter(io.reads, k), Separator(io.service))
            /\ clients[io.fd].buf
                   = SpecResidue(DataAfter(io.reads, k), Separator(io.service))
            /\ clients[io.fd].buflen = Len(clients[io.fd].buf)
            /\ DataAfter(io.reads, k) = << >> => clients[io.fd].buflen = 0

C14_Witness ==
    /\ OverflowAt(1)
    /\ io.service = "rawi"
    /\ io.handled = << HexLine(FrameDF11A) >>
    /\ io.fd \in DOMAIN clients
    /\ clients[io.fd].buflen = 0

\* what the specification decides for a request: HTTP/1.1 keeps the
\* connection unless "Connection: close" is there, any other version closes
\* it unless "Connection: keep-alive" is there
SpecKeepAlive(request) ==
    IF Occurrences(request, StrHttp11) # {}
    THEN Occurrences(request, StrClose) = {}
    ELSE Occurrences(request, StrKeepAlive) # {}

\* a method, a space, a URL and a space
SpecParsable(request) ==
    Cardinality({ i \in DOMAIN request : request[i] = " " }) >= 2

\* C15: every HTTP request gets the keep-alive decision of its version and
\* Connection header; after a response that was written in full the client
\* is freed exactly when the decision is to close; a request with no method
\* and URL to parse, and a response written short, free the client.
C15_KeepAliveDecision ==
    (ReadCall /\ io.service = "http" /\ io.handled # << >>) =>
        LET n == Len(io.handled)
        IN /\ \A i \in 1..n :
                 io.replies[i].keepalive = SpecKeepAlive(io.handled[i])
           /\ (SpecParsable(io.handled[n]) /\ io.shortAt # n /\ ~ReadEnded) =>
                 (io.fd \in DOMAIN clients <=> SpecKeepAlive(io.handled[n]))
           /\ (~SpecParsable(io.handled[n]) \/ io.shortAt = n) =>
                 io.fd \notin DOMAIN clients

C15_Witness ==
    /\ ReadCall
    /\ io.handled = << StrGetRoot10 \o StrCRLF \o StrKeepAlive >>
    /\ io.shortAt = 0
    /\ io.fd \in DOMAIN clients
    /\ stat_http_requests = 1

(***************************************************************************)
(* Properties of the tracker behind useModesMessage.                       *)
(***************************************************************************)
\* the address interactiveReceiveData looks up
MessageAddr(mm) == mm.aa1 * 65536 + mm.aa2 * 256 + mm.aa3

HasAircraft(list, addr) == \E i \in 1..Len(list) : list[i].addr = addr

\* the step hands to useModesMessage a message that is admitted, for an
\* address the table has no aircraft of
FirstAdmitted ==
    /\ nframes' # nframes
    /\ last'.op = "use"
    /\ ~cfg.check_crc \/ last'.mm.crcok
    /\ ~HasAircraft(aircrafts, MessageAddr(last'.mm))

\* the modes the tracker is called in: not with --stats, and in interactive
\* mode or once an HTTP request was served or an SBS or trajectory client
\* was accepted
TrackerOn ==
    /\ ~cfg.stats
    /\ \/ cfg.interactive
       \/ stat_http_requests > 0
       \/ stat_sbs_connections > 0
       \/ stat_trajectory_connections > 0

FrameDF == stackmsg[1] \div 8

\* C17: the length taken for a frame depends on nothing but its downlink
\* format: 112 bits for DF 16, 17, 19, 20 and 21, and 56 bits for every other
\* format, whatever the other bits of the frame and the length of the line.
C17_LengthByFormat ==
    last.op = "main" =>
        last.mm.msgbits = IF FrameDF \in {16, 17, 19, 20, 21} THEN 112 ELSE 56

C17_Witness ==
    /\ last.op = "main"
    /\ FrameDF = 21
    /\ Len(last.line) = 16
    /\ last.mm.msgbits = 112

\* the places in the frame of the 13 bits of the identity field, in the order
\* C1 A1 C2 A2 C4 A4 X B1 D1 B2 D2 B4 D4; X is at place 25
IdentityBits == 19..31

\* the five bits C1 A1 C2 A2 C4 and the seven bits A4 B1 D1 B2 D2 B4 D4 that
\* spell the octal digits a, b, c, d
SpecByte2(a, c) ==
    (c % 2) * 16 + (a % 2) * 8 + ((c \div 2) % 2) * 4 + ((a \div 2) % 2) * 2
    + (c \div 4)
SpecByte3(a, b, d) ==
    (a \div 4) * 128 + (b % 2) * 32 + (d % 2) * 16 + ((b \div 2) % 2) * 8
    + ((d \div 2) % 2) * 4 + (b \div 4) * 2 + (d \div 4)

\* C18, as stated: the identity is a one-to-one function of the 13 bits; in
\* particular, a frame that differs from the decoded one in a single bit of
\* the 13 never has the same identity.
C18_IdentityOneToOne ==
    last.op = "main" =>
        \A k \in IdentityBits :
            decodeIdentity(FlipBit(stackmsg, k)) # last.mm.identity

\* C18, amended: the identity is a one-to-one function of the twelve bits
\* C1 A1 C2 A2 C4 A4 B1 D1 B2 D2 B4 D4: its four decimal digits are octal
\* digits and spell out these twelve bits again; the bit X has no influence.
C18_IdentityOfTwelveBits ==
    last.op = "main" =>
        LET a == last.mm.identity \div 1000
            b == (last.mm.identity \div 100) % 10
            c == (last.mm.identity \div 10) % 10
            d == last.mm.identity % 10
        IN /\ {a, b, c, d} \subseteq 0..7
           /\ SpecByte2(a, c) = stackmsg[3] % 32
           /\ SpecByte3(a, b, d) = stackmsg[4] - 64 * ((stackmsg[4] \div 64) % 2)
           /\ decodeIdentity(FlipBit(stackmsg, 25)) = last.mm.identity

C18_Witness ==
    /\ last.op = "main"
    /\ stackmsg[3] % 32 = 10
    /\ stackmsg[4] = 234
    /\ last.mm.identity = 7700

\* the text of a status column
SpecFlag(set) == IF set THEN << "-", "1" >> ELSE << "0" >>

\* C19: the line sent to the BaseStation clients for a DF4, DF5 or DF21
\* message has 22 columns, of which the last four are, in this order, ALERT
\* (-1 iff fs is 2, 3 or 4), EMERG (-1 iff the squawk is 7500, 7600 or 7700),
\* SPI (-1 iff fs is 4 or 5) and GROUND (-1 iff fs is 1 or 3), each 0 otherwise.
C19_StatusColumns ==
    (last.op = "main" /\ FrameDF \in {4, 5, 21} /\ last.out.sbsmsg # << >>) =>
        LET fs == stackmsg[1] % 8
            line == last.out.sbsmsg
        IN /\ Len(line) = 22
           /\ line[19] = SpecFlag(fs \in {2, 3, 4})
           /\ line[20] = SpecFlag(last.mm.identity \in {7500, 7600, 7700})
           /\ line[21] = SpecFlag(fs \in {4, 5})
           /\ line[22] = SpecFlag(fs \in {1, 3})

C19_Witness ==
    /\ last.op = "main"
    /\ FrameDF = 5
    /\ stackmsg[1] % 8 = 4
    /\ last.mm.identity = 7700
    /\ last.out.sbsmsg # << >>
    /\ SubSeq(last.out.sbsmsg, 19, 22)
           = << << "-", "1" >>, << "-", "1" >>, << "-", "1" >>, << "0" >> >>

(***************************************************************************)
(* Properties of the CPR resolver.                                         *)
(***************************************************************************)
\* the position of the aircraft was resolved by the last message
ResolvedNow ==
    /\ last.op = "track"
    /\ last.idx # 0
    /\ Len(last.before) > 0
    /\ aircrafts[last.idx].lon # last.before[1].lon

\* C20: every longitude stored in an aircraft lies in (-180, 180]: with the
\* longitude 360 * n / (z * 131072) degrees, -z * 131072 < 2 * n <= z * 131072.
C20_LongitudeInRange ==
    \A i \in 1..Len(aircrafts) :
        /\ aircrafts[i].lon.z > 0
        /\ 2 * aircrafts[i].lon.n > 0 - aircrafts[i].lon.z * 131072
        /\ 2 * aircrafts[i].lon.n <= aircrafts[i].lon.z * 131072

\* a longitude past 180 degrees was brought back below zero
C20_Witness ==
    /\ ResolvedNow
    /\ aircrafts[last.idx].lon.n < 0

(***************************************************************************)
(* Properties of the mutex discipline of the hand-over.                    *)
(***************************************************************************)
\* the thread that is inside a section of its code between a lock (or a
\* return of pthread_cond_wait) and the next unlock (or pthread_cond_wait)
ReaderInside == rpc \in {"head", "fill"}
MainInside == mpc \in {"head", "done"}

\* C21: the hex line, its length, data_ready and the exit flag change only
\* in a step of a thread that holds the mutex, and a thread is between lock
\* and unlock only while it is the holder; the reader writes the hex line
\* only while data_ready is 0, main copies it out only while data_ready is 1,
\* and data_ready goes back to 0 only in the step in which main copies the
\* line out, so no line is written over before it was copied.
C21_RendezvousUnderMutex ==
    [][/\ ReaderInside => data_mutex = "reader"
       /\ MainInside => data_mutex = "main"
       /\ input' # input =>
              \/ data_mutex = "reader" /\ ReaderInside /\ mpc' \in {mpc, "woken"}
              \/ data_mutex = "main" /\ MainInside /\ rpc' \in {rpc, "woken"}
       /\ (input'.hex_data # input.hex_data
            \/ input'.hex_data_len # input.hex_data_len
            \/ input'.exit # input.exit) =>
              data_mutex = "reader" /\ input.data_ready = 0
       /\ decoded' # decoded =>
              /\ data_mutex = "main"
              /\ input.data_ready = 1
              /\ \E tail \in Overrun(input.hex_data) :
                    decoded' = Append(decoded, CString(input.hex_data) \o tail)
       /\ (input.data_ready = 1 /\ input'.data_ready = 0) => decoded' # decoded
      ]_vars

\* the reader has put a second line in hex_data after main copied the first
C21_Witness ==
    /\ Len(decoded) = 1
    /\ input.data_ready = 1
    /\ data_mutex = "reader"
    /\ CString(input.hex_data) # decoded[1]
    /\ input.exit = 0

\* C22: main copies the line out while it holds the mutex and data_ready is
\* 1, and in that step clears data_ready, signals the reader and releases
\* the mutex, without decoding anything yet; it decodes, tracks, fans out and
\* runs the background tasks in a later step in which it does not hold the
\* mutex, on the line it copied; and it looks at the exit flag only after it
\* took the mutex again.
C22_MainLoopOrder ==
    [][/\ decoded' # decoded =>
              /\ mpc = "head" /\ data_mutex = "main" /\ input.data_ready = 1
              /\ input'.data_ready = 0
              /\ rpc = "wait" => rpc' = "woken"
              /\ data_mutex' = "free"
              /\ mpc' = "process"
              /\ UNCHANGED << last, aircrafts, icao_cache, stat_decoded_msg >>
       /\ (last' # last \/ aircrafts' # aircrafts \/ icao_cache' # icao_cache
            \/ stat_decoded_msg' # stat_decoded_msg) =>
              /\ mpc = "process" /\ mpc' = "relock"
              /\ data_mutex # "main" /\ data_mutex' # "main"
              /\ last'.op = "main"
              /\ last'.line = decoded[Len(decoded)]
              /\ stat_decoded_msg' = stat_decoded_msg + 1
              /\ UNCHANGED << input, decoded >>
       /\ (mpc = "process" /\ mpc' # mpc) =>
              stat_decoded_msg' = stat_decoded_msg + 1
       /\ (mpc # "done" /\ mpc' = "done") =>
              /\ mpc = "relock" /\ data_mutex' = "main" /\ input.exit = 1
       /\ (mpc = "relock" /\ mpc' = "head") =>
              /\ data_mutex' = "main" /\ input.exit = 0
      ]_vars

\* main has decoded a line without the mutex and is about to take it again
C22_Witness ==
    /\ mpc = "relock"
    /\ last.op = "main"
    /\ stat_decoded_msg = 1
    /\ data_mutex = "reader"
    /\ Len(decoded) = 1

\* the reader holds the mutex and the line it is about to read makes it
\* call read() on the input descriptor
ReadPending ==
    /\ FillPending
    /\ data_mutex = "reader"
    /\ \/ readHexData(input, file).fpos # input.fpos
       \/ readHexData(input, file).exit # input.exit

\* C23: main is never at a pthread_mutex_lock (or at the return of
\* pthread_cond_wait, which takes the mutex) while the reader holds the
\* mutex and is about to call read().
C23_MainNotBehindRead ==
    ~(mpc \in {"lock", "woken", "relock"} /\ ReadPending)

\* the newline-terminated segments of a file that are longer than hex_data
Overlong(f) ==
    { i \in 1..Len(LinesOfFile(f)) : Len(LinesOfFile(f)[i]) > MODES_HEX_LEN }

\* C24: of a line of more than 64 characters at most the first 64 are handed
\* over as a line, and no line handed over begins with the characters of
\* the line after its 64th.
C24_OverflowDropped ==
    \A k \in 1..Len(decoded) :
        /\ Len(decoded[k]) <= MODES_HEX_LEN
        /\ \A i \in Overlong(file) :
              LET rest == SubSeq(LinesOfFile(file)[i], MODES_HEX_LEN + 1,
                                 Len(LinesOfFile(file)[i]))
              IN Len(decoded[k]) < Len(rest)
                 \/ SubSeq(decoded[k], 1, Len(rest)) # rest

(***************************************************************************)
(* Properties of the life of a client.                                     *)
(***************************************************************************)
\* C25 as the specification states it: after a call in which the buffer of
\* the client filled up with no separator in it the client is no longer in
\* the table.
C25_OverflowDestroysClient ==
    \A k \in 1..Len(io.reads) : OverflowAt(k) => io.fd \notin DOMAIN clients

\* C25: a call that reads from a client removes it from the table exactly
\* when its last read returned 0 or failed with an errno other than EAGAIN,
\* or the handler returned nonzero for one of its messages; a buffer that
\* filled up with no separator in it does not remove the client.
C25_OverflowKeepsClient ==
    ReadCall =>
        /\ io.fd \notin DOMAIN clients <=> (ReadEnded \/ ~NoneClosed)
        /\ \A f \in DOMAIN io.before \ { io.fd } :
              io.before[f].service \in { "rawi", "http" } => f \in DOMAIN clients

\* an HTTP client filled its buffer with bytes that hold no empty line and
\* then sent a request; nothing more is there to read, and the client is
\* still in the table
C25_Witness ==
    /\ ReadCall
    /\ io.service = "http"
    /\ Len(io.reads) = 3
    /\ OverflowAt(1)
    /\ LastRead = ReadAgain
    /\ io.overflows = 1
    /\ io.fd \in DOMAIN clients

\* C26: the clients of the table are at indexes from 0 to 1023, each with
\* its index as its fd; accept() returning a descriptor of 1024 or more
\* leaves the table as it was; and maxfd is the greatest index that holds a
\* client, -1 when none does.
C26_ClientTableConsistent ==
    /\ \A f \in DOMAIN clients :
          /\ 0 <= f
          /\ f < MODES_NET_MAX_FD
          /\ clients[f].fd = f
    /\ (io.op = "accept" /\ io.fd >= MODES_NET_MAX_FD) =>
          /\ clients = io.before
          /\ maxfd = io.beforefd
    /\ maxfd = Greatest(DOMAIN clients)

\* of two clients the one at the greater index has been freed after a read
C26_Witness ==
    /\ ReadCall
    /\ io.beforefd = io.fd
    /\ io.fd \notin DOMAIN clients
    /\ clients # << >>
    /\ maxfd < io.fd
    /\ maxfd \in DOMAIN clients

(***************************************************************************)
(* Properties of the decoder on one frame.                                 *)
(***************************************************************************)
\* the CRC of the buffer handed to decodeModesMessage does not match
CrcFailed ==
    TrailingCrc(stackmsg, modesMessageLenByType(FrameDF))
        # modesChecksum(stackmsg, modesMessageLenByType(FrameDF))

\* C27: the message decoded differs from the buffer it was decoded from, or
\* has an errorbit other than -1, only when the buffer is a DF11 or DF17
\* frame whose CRC does not match and --no-fix was not given; an errorbit
\* below 256 is that of the one bit that differs; an errorbit of two bits
\* (j | i << 8, at least 256) is there only with --aggressive on a DF17 frame
\* that fixSingleBitErrors returns -1 for; and an errorbit of 0 or more has
\* crcok with it.
C27_RepairOnlyWhereAllowed ==
    last.op \in { "main", "rawin" } =>
        /\ (last.mm.msg # stackmsg \/ last.mm.errorbit # -1) =>
              /\ FrameDF \in { 11, 17 }
              /\ cfg.fix_errors
              /\ CrcFailed
              /\ last.mm.errorbit >= 0
        /\ last.mm.errorbit \in 0..255 =>
              last.mm.msg = FlipBit(stackmsg, last.mm.errorbit)
        /\ last.mm.errorbit >= 256 =>
              /\ cfg.aggressive
              /\ FrameDF = 17
              /\ fixSingleBitErrors(stackmsg, MODES_LONG_MSG_BITS).bit = -1
              /\ last.mm.msg = FlipBit(FlipBit(stackmsg, last.mm.errorbit % 256),
                                       last.mm.errorbit \div 256)
        /\ last.mm.errorbit >= 0 => last.mm.crcok

\* with --no-fix an extended squitter with one bit flipped has been decoded
\* and is as it came
C27_Witness ==
    /\ last.op = "main"
    /\ ~cfg.fix_errors
    /\ stackmsg = FrameDF17E1
    /\ last.mm.msg = stackmsg
    /\ last.mm.errorbit = -1
    /\ ~last.mm.crcok

\* with --aggressive an extended squitter with two bits flipped has been
\* repaired
C27_TwoBitsWitness ==
    /\ last.op = "main"
    /\ cfg.aggressive
    /\ stackmsg = FrameDF17E2
    /\ last.mm.msg = FrameDF17
    /\ last.mm.errorbit = 5 + 6 * 256

\* the square root of x rounded to the nearest integer
RoundSqrt(x) ==
    LET floor == CHOOSE r \in 0..(2 * 1023) : r * r <= x /\ x < (r + 1) * (r + 1)
    IN IF 4 * x >= (2 * floor + 1) * (2 * floor + 1) THEN floor + 1 ELSE floor

\* an airborne velocity message of subtype 1 or 2 has been decoded
VelocityDecoded ==
    /\ last.op = "decode"
    /\ last.mm.msgtype = 17
    /\ last.mm.metype = 19
    /\ last.mm.mesub \in 1..2

\* C28: the velocity of an airborne velocity message of subtype 1 or 2 is the
\* square root of ew_velocity^2 + ns_velocity^2 rounded to the nearest
\* integer.
C28_SpeedIsRounded ==
    VelocityDecoded =>
        last.mm.velocity = RoundSqrt(last.mm.ew_velocity * last.mm.ew_velocity
                                     + last.mm.ns_velocity * last.mm.ns_velocity)

(***************************************************************************)
(* Properties of the tracker on one message.                               *)
(***************************************************************************)
\* the aircraft of a message before the message: as it is in the list, or as
\* it is created at ts
AircraftBefore(list, mm, ts) ==
    IF interactiveFindAircraft(list, MessageAddr(mm)) = 0
    THEN interactiveCreateAircraft(MessageAddr(mm), ts)
    ELSE list[interactiveFindAircraft(list, MessageAddr(mm))]

\* the fields the specification lets a message set besides seen and messages
SpecFields(mm) ==
    IF mm.msgtype \in { 0, 4, 20 } THEN { "altitude" }
    ELSE IF mm.msgtype # 17 THEN {}
    ELSE IF mm.metype \in 1..4 THEN { "flight" }
    ELSE IF mm.metype \in 9..18
    THEN { "altitude", "lat", "lon" }
         \cup (IF mm.fflag # 0
               THEN { "odd_cprlat", "odd_cprlon", "odd_cprtime" }
               ELSE { "even_cprlat", "even_cprlon", "even_cprtime" })
    ELSE IF mm.metype = 19 /\ mm.mesub \in 1..2 THEN { "speed", "track" }
    ELSE {}

\* the values the specification gives the fields it names, lat and lon
\* excepted
SpecValue(mm, field) ==
    CASE field = "altitude" -> mm.altitude
      [] field = "flight" -> mm.flight
      [] field = "speed" -> mm.velocity
      [] field = "track" -> mm.heading
      [] field \in { "odd_cprlat", "even_cprlat" } -> mm.raw_latitude
      [] field \in { "odd_cprlon", "even_cprlon" } -> mm.raw_longitude
      [] field \in { "odd_cprtime", "even_cprtime" } -> now

\* the aircraft at place idx of list is what a message mm turns the aircraft
\* old into, as the specification has it
SpecUpdated(list, idx, old, mm) ==
    /\ list[idx].seen = tsec
    /\ list[idx].messages = old.messages + 1
    /\ \A field \in SpecFields(mm) \ { "lat", "lon" } :
          list[idx][field] = SpecValue(mm, field)
    /\ \A field \in DOMAIN old \ (SpecFields(mm) \cup { "seen", "messages" }) :
          list[idx][field] = old[field]

\* C29: a step in which the tracker admits a message leaves its aircraft
\* with seen = now (in seconds) and one message more than before; the fields
\* the format of the message names have the values of the message; no other
\* field of the aircraft differs from what it was; and the other aircraft of
\* the list are what and where they were.
C29_OnlyFieldsOfTheFormat ==
    [][(nframes' # nframes /\ last'.op = "track" /\ last'.idx # 0) =>
          /\ SpecUpdated(aircrafts', last'.idx,
                         AircraftBefore(aircrafts, last'.mm, tsec), last'.mm)
          /\ IF interactiveFindAircraft(aircrafts, MessageAddr(last'.mm)) = 0
             THEN last'.idx = 1 /\ Tail(aircrafts') = aircrafts
             ELSE /\ last'.idx
                        = interactiveFindAircraft(aircrafts, MessageAddr(last'.mm))
                  /\ Len(aircrafts') = Len(aircrafts)
                  /\ \A i \in DOMAIN aircrafts \ { last'.idx } :
                        aircrafts'[i] = aircrafts[i]
      ]_vars

\* a velocity message was admitted for an aircraft that had an altitude and
\* sits behind another aircraft in the list
C29_Witness ==
    /\ last.op = "track"
    /\ last.mm.metype = 19
    /\ last.idx = 2
    /\ aircrafts[2].altitude # 0
    /\ aircrafts[2].speed = 160
    /\ aircrafts[2].messages = 2

(***************************************************************************)
(* Properties of the framing of the raw input.                             *)
(***************************************************************************)
\* what the client has sent since its last frame ended: what the buffer held
\* before the call and what the reads of the call returned
StreamRead == io.before[io.fd].buf \o DataUpTo(io.reads, Len(io.reads))

\* every segment of the stream fits in the buffer with its new line, and so
\* does what follows the last new line
SegmentsFit ==
    /\ \A i \in DOMAIN SpecFrames(StreamRead, << "\n" >>) :
          Len(SpecFrames(StreamRead, << "\n" >>)[i]) < MODES_CLIENT_BUF_SIZE
    /\ Len(SpecResidue(StreamRead, << "\n" >>)) < MODES_CLIENT_BUF_SIZE

\* C30: when a raw input client has been read from and no segment of its
\* stream is longer than the buffer, the frames handed to decodeHexMessage
\* are the segments of the stream that end with a new line, in their order,
\* the last of them being the last line decoded; and while the client is in
\* the table its buffer holds what follows the last new line.
C30_FramesAreSegments ==
    (ReadCall /\ io.service = "rawi" /\ SegmentsFit) =>
        /\ io.handled = SpecFrames(StreamRead, << "\n" >>)
        /\ io.overflows = 0
        /\ io.handled # << >> =>
              /\ last.op = "rawin"
              /\ last.line = io.handled[Len(io.handled)]
        /\ io.fd \in DOMAIN clients =>
              /\ clients[io.fd].buf = SpecResidue(StreamRead, << "\n" >>)
              /\ clients[io.fd].buflen = Len(clients[io.fd].buf)

\* the second piece of a line arrived in a call of its own, followed by
\* nothing, and the line was handed over whole
C30_Witness ==
    /\ ReadCall
    /\ io.service = "rawi"
    /\ io.before[io.fd].buf = SubSeq(LineA, 1, 6)
    /\ io.reads = << ReadData(SubSeq(LineA, 7, Len(LineA))), ReadAgain >>
    /\ io.handled = << HexLine(FrameDF11A) >>
    /\ io.fd \in DOMAIN clients
    /\ clients[io.fd].buflen = 0

(***************************************************************************)
(* Properties of one pass over the clients of a service.                   *)
(***************************************************************************)
\* the descriptors modesSendAllClients called write() on for the service in
\* the last call, in the order of the calls
WritesTo(service) ==
    SendLoop([tab |-> io.before, maxfd |-> io.beforefd], service, io.short, 0,
             << >>).writes

\* C31: when one message was sent, write() was called once on each client
\* of each service the message went to and on no other client; the clients
\* whose write came back short are gone from the table, and every other
\* client that was not read from is in the table as it was.
C31_OneWritePerClientOfService ==
    SentOne =>
        /\ \A service \in SentTo :
              /\ { WritesTo(service)[i] : i \in DOMAIN WritesTo(service) }
                     = { f \in DOMAIN io.before : io.before[f].service = service }
              /\ \A i, k \in DOMAIN WritesTo(service) :
                    WritesTo(service)[i] = WritesTo(service)[k] => i = k
        /\ DOMAIN clients \subseteq DOMAIN io.before
        /\ \A f \in DOMAIN io.before \ { io.fd } :
              IF f \in ShortWritten
              THEN f \notin DOMAIN clients
              ELSE f \in DOMAIN clients /\ clients[f] = io.before[f]

\* a line went to two raw output clients, the write to the first came back
\* short, and the second was written to and is still there
C31_Witness ==
    /\ io.op = "send"
    /\ io.short = { 7 }
    /\ DOMAIN io.before = { 7, 8 }
    /\ io.before[7].service = "rawo"
    /\ io.before[8].service = "rawo"
    /\ WritesTo("rawo") = << 7, 8 >>
    /\ DOMAIN clients = { 8 }
    /\ maxfd = 8

(***************************************************************************)
(* Properties of the positions stored.                                     *)
(***************************************************************************)
\* 360 * n / (z * 131072) degrees lies in [-180, 180]
InHalfTurn(v) ==
    /\ v.z > 0
    /\ 2 * v.n >= 0 - v.z * CPR_SCALE
    /\ 2 * v.n <= v.z * CPR_SCALE

\* the latitudes decodeCPR computes from the two reports of an aircraft
Rlat0(a) ==
    Wrap270([n |-> cprModFunction(FloorHalf(59 * a.even_cprlat - 60 * a.odd_cprlat),
                                  60) * CPR_SCALE + a.even_cprlat,
             z |-> 60])
Rlat1(a) ==
    Wrap270([n |-> cprModFunction(FloorHalf(59 * a.even_cprlat - 60 * a.odd_cprlat),
                                  59) * CPR_SCALE + a.odd_cprlat,
             z |-> 59])

\* the last message was a position report whose aircraft had its position
\* resolved: the two reports are at most 10 s apart and in one zone
JustResolved ==
    /\ last.op = "track"
    /\ last.idx # 0
    /\ IsPosition(last.mm)
    /\ Abs(aircrafts[last.idx].even_cprtime - aircrafts[last.idx].odd_cprtime)
          <= 10000
    /\ cprNLFunction(Rlat0(aircrafts[last.idx]))
          = cprNLFunction(Rlat1(aircrafts[last.idx]))

\* every latitude and longitude stored lies in [-180, 180]
StoredInRange ==
    \A i \in 1..Len(aircrafts) :
        InHalfTurn(aircrafts[i].lat) /\ InHalfTurn(aircrafts[i].lon)

\* an aircraft whose position was resolved has neither 0 as its latitude nor
\* 0 as its longitude
ResolvedIsNotZero ==
    JustResolved =>
        aircrafts[last.idx].lat.n # 0 /\ aircrafts[last.idx].lon.n # 0

\* C32: the latitude and the longitude of every aircraft lie in [-180, 180],
\* and neither is 0 for an aircraft whose position was resolved.
C32_PositionInRangeZeroUnresolved == StoredInRange /\ ResolvedIsNotZero

(***************************************************************************)
(* Properties of the position sinks.                                       *)
(***************************************************************************)
\* C33: when a position report is used while an SBS and a trajectory client
\* are attached, the SBS line has a latitude and a longitude column exactly
\* when a trajectory line is sent, and that is exactly when the JSON
\* snapshot lists the aircraft.
C33_SinksAgreeOnPosition ==
    [][(/\ nframes' # nframes
        /\ last'.op = "use"
        /\ last'.idx # 0
        /\ IsPosition(last'.mm)
        /\ stat_sbs_connections > 0
        /\ stat_trajectory_connections > 0) =>
          /\ (last'.out.sbsmsg[15] # << >> /\ last'.out.sbsmsg[16] # << >>)
                <=> last'.out.trj
          /\ last'.out.trj <=> JsonLists(aircrafts'[last'.idx])
      ]_vars

(***************************************************************************)
(* Properties of the recency cache: what it reports.                       *)
(***************************************************************************)
\* the addresses looked up: those inserted, and ABCDEF, which never is
LookedUp == CacheAddrs \cup { 11259375 }

\* C34: an address is reported as recently seen only if it was inserted at
\* most MODES_ICAO_CACHE_TTL seconds ago and no address of the same slot was
\* inserted since; an address that was never inserted is not reported, on
\* the cache as modesInit leaves it either.
C34_NoFalsePositive ==
    \A a \in LookedUp :
        ICAOAddressWasRecentlySeen(icao_cache, a, tsec)
            => /\ a \in DOMAIN inserted
               /\ tsec - inserted[a] <= MODES_ICAO_CACHE_TTL

\* 4840D6 was inserted and the address sharing its slot after it: the slot
\* is fresh and 4840D6 is not reported
C34_Witness ==
    /\ 1824 \in DOMAIN inserted
    /\ ICAOCacheHashAddress(4735190) \in DOMAIN icao_cache
    /\ icao_cache[ICAOCacheHashAddress(4735190)].addr # 4735190
    /\ tsec - icao_cache[ICAOCacheHashAddress(4735190)].t <= MODES_ICAO_CACHE_TTL
    /\ ~ICAOAddressWasRecentlySeen(icao_cache, 4735190, tsec)
    /\ ICAOAddressWasRecentlySeen(icao_cache,
                                  icao_cache[ICAOCacheHashAddress(4735190)].addr, tsec)

(***************************************************************************)
(* Properties of the hex line buffer: what the reader publishes in it.     *)
(***************************************************************************)
\* C35: a line the reader has published, data_ready set, ends with a NUL
\* inside the MODES_HEX_LEN bytes of hex_data, whatever the length of the
\* line in the file and wherever the file ends.
C35_PublishedLineTerminated ==
    input.data_ready = 1
        => /\ Len(input.hex_data) = MODES_HEX_LEN
           /\ \E i \in 1..MODES_HEX_LEN : input.hex_data[i] = NUL

(***************************************************************************)
(* Properties of the buffer of a client.                                   *)
(***************************************************************************)
\* the client as modesReadFromClient has it at the top of its loop after k
\* of the reads of the call
AtRead(k) ==
    modesReadFromClient(io.before[io.fd], io.shortAt, SubSeq(io.reads, 1, k))

\* the k+1-th read() of the call is issued
Issued(k) == AtRead(k).state = "reading" /\ AtRead(k).k = k /\ ~AtRead(k).freed

\* int left = MODES_CLIENT_BUF_SIZE - c->buflen
LeftAt(k) == MODES_CLIENT_BUF_SIZE - Len(AtRead(k).buf)

\* C36: buflen is the number of bytes in buf and is from 0 to
\* MODES_CLIENT_BUF_SIZE - 1 in every client of the table; every read() of
\* modesReadFromClient is asked for MODES_CLIENT_BUF_SIZE - buflen bytes,
\* which is 1 at least, and the NUL after the bytes it stored is at an index
\* of MODES_CLIENT_BUF_SIZE at most.
C36_BuflenInBounds ==
    /\ \A f \in DOMAIN clients :
          /\ clients[f].buflen = Len(clients[f].buf)
          /\ clients[f].buflen >= 0
          /\ clients[f].buflen < MODES_CLIENT_BUF_SIZE
    /\ ReadCall =>
          \A k \in 0..(Len(io.reads) - 1) :
              Issued(k) =>
                  /\ LeftAt(k) >= 1
                  /\ io.reads[k + 1].nread > 0 =>
                         Len(AtRead(k).buf) + io.reads[k + 1].nread
                             <= MODES_CLIENT_BUF_SIZE

\* a raw input client with half a buffer of bytes sent as much again: the
\* second read of an earlier call filled the buffer, which was discarded, and
\* the client is in the table with an empty buffer
C36_Witness ==
    /\ ReadCall
    /\ io.service = "rawi"
    /\ Len(io.reads) = 2
    /\ Len(io.before[io.fd].buf) = MODES_CLIENT_BUF_SIZE \div 2
    /\ LeftAt(0) = MODES_CLIENT_BUF_SIZE \div 2
    /\ io.reads[1].nread = LeftAt(0)
    /\ Issued(1)
    /\ LeftAt(1) = MODES_CLIENT_BUF_SIZE
    /\ LastRead = ReadAgain
    /\ io.fd \in DOMAIN clients
    /\ clients[io.fd].buflen = 0

(***************************************************************************)
(* Properties of the hand-over: neither thread waits for ever.             *)
(***************************************************************************)
\* the thread is at a step it can take: it holds the mutex, or works without
\* it, or is at a pthread_mutex_lock of a mutex that is free
ReaderCanStep ==
    \/ rpc \in {"head", "fill"} /\ data_mutex = "reader"
    \/ rpc \in {"lock", "woken", "sleep"} /\ data_mutex = "free"

MainCanStep ==
    \/ mpc = "head" /\ data_mutex = "main"
    \/ mpc = "process"
    \/ mpc \in {"lock", "woken", "relock"} /\ data_mutex = "free"

\* C37: the reader and main are never both in pthread_cond_wait; the reader
\* is in it only while data_ready is 1 and main only while data_ready is 0;
\* while one of them is in it the other can take a step, main as long as it
\* has not left its loop; and the one that waits is signalled: main always,
\* the reader unless main leaves its loop, which ends the program.
C37_HandoffNeverDeadlocks ==
    /\ [](~(rpc = "wait" /\ mpc = "wait"))
    /\ [](rpc = "wait" => input.data_ready = 1)
    /\ [](mpc = "wait" => input.data_ready = 0)
    /\ []((rpc = "wait" /\ mpc # "done") => MainCanStep)
    /\ [](mpc = "wait" => ReaderCanStep)
    /\ (mpc = "wait") ~> (mpc = "woken")
    /\ (rpc = "wait") ~> (rpc = "woken" \/ mpc = "done")

\* after one line was handed over main found no line ready and waits, and
\* the reader holds the mutex and is about to read the next line
C37_Witness ==
    /\ mpc = "wait"
    /\ rpc = "head"
    /\ data_mutex = "reader"
    /\ input.data_ready = 0
    /\ input.exit = 0
    /\ Len(decoded) = 1

(***************************************************************************)
(* The serial port with --net: the port delivers some lines and is silent  *)
(* after them, and a client has connected to the SBS output port before    *)
(* the reader thread is created.                                           *)
(***************************************************************************)
\* the descriptor accept() returns for the connection that waits on the SBS
\* output port
PendingFd == 7

\* file holds what the port delivers; read() on the port does not return
\* while it has nothing (setSerialPortBlocking), so no end is ever seen
SerialInit ==
    /\ Boot
    /\ cfg.net /\ ~cfg.interactive
    /\ file \in FilesOf(MaxFileLines)

\* the line the reader is about to read has arrived
LineArrived == readHexData(input, file).exit = 0

\* lines 403-425 with Modes.filename NULL: the reader is in read(), holding
\* the mutex, until the port delivers the rest of the line
SerialFill == LineArrived /\ ReaderFill

\* modesAcceptClients: the connection that waits is accepted
Accepted(t) ==
    IF PendingFd \in DOMAIN t.tab THEN t
    ELSE [tab |-> t.tab @@ (PendingFd :> [service |-> "sbs", fd |-> PendingFd,
                                          buflen |-> 0, buf |-> << >>]),
          maxfd |-> IF t.maxfd < PendingFd THEN PendingFd ELSE t.maxfd]

\* lines 2362-2366 with --net: the message is decoded, counted and used, and
\* backgroundTasks accepts the connection and removes the stale aircraft
SerialProcess ==
    /\ mpc = "process"
    /\ ProcessLine("main", decoded[Len(decoded)], stackmsg,
                   BackgroundRemovesStale(FALSE))
    /\ stat_decoded_msg' = stat_decoded_msg + 1
    /\ mpc' = "relock"
    /\ clients' = Accepted(Table).tab
    /\ maxfd' = Accepted(Table).maxfd
    /\ stat_sbs_connections' = IF PendingFd \in DOMAIN clients
                               THEN stat_sbs_connections
                               ELSE stat_sbs_connections + 1
    /\ UNCHANGED << now, cfg, stat_http_requests, stat_trajectory_connections,
                    inserted, heard, file, input, data_mutex, rpc, decoded,
                    probe, io >>

SerialNext ==
    \/ ReaderLock \/ ReaderWait \/ ReaderWake \/ SerialFill
    \/ MainLock \/ MainWait \/ MainWake \/ MainRelock \/ MainTake
    \/ SerialProcess
    \/ \E t \in Instants : Tick(t)

SerialSpec == SerialInit /\ [][SerialNext]_vars

\* Both threads are scheduled again and again, as in IngestFair; the reader
\* leaves read() whenever the line has arrived.
SerialFair ==
    /\ SerialSpec
    /\ WF_vars(ReaderLock \/ ReaderWait \/ ReaderWake)
    /\ WF_vars(MainLock \/ MainWait \/ MainWake \/ MainRelock)
    /\ []<>(~(FillPending /\ LineArrived))
    /\ []<>(~TakePending)
    /\ []<>(mpc # "process")

\* an aircraft of the list was last seen more than MODES_INTERACTIVE_TTL
\* seconds ago
StaleListed ==
    \E i \in 1..Len(aircrafts) : tsec - aircrafts[i].seen > MODES_INTERACTIVE_TTL

\* C38: with --net and the serial port as input, whatever the port delivers
\* and however long it is silent, the connection that waits on the SBS
\* output port is eventually accepted, and a listed aircraft last seen more
\* than MODES_INTERACTIVE_TTL seconds ago is eventually out of the list.
C38_BackgroundRunsWhileIdle ==
    /\ <>(PendingFd \in DOMAIN clients)
    /\ StaleListed ~> ~StaleListed

=============================================================================
